---- MODULE Spec2Model ----
(***************************************************************************)
(* Timeline events sync worker: Facebook feed -> D1 (events,               *)
(* event_photos) + R2 (photo blobs) -> Webflow CMS.                        *)
(*                                                                         *)
(* The store is modelled as sets of rows, the bucket as a set of storage   *)
(* keys.  Every HTTP handler is one action; the functions it awaits are    *)
(* operators over a store record db.                                       *)
(*                                                                         *)
(* Encoding of values:                                                     *)
(*   external_id      0 = NULL, 1..NumPosts = Facebook post ids,           *)
(*                    100 + n = the Webflow item id of the item created    *)
(*                    for event n                                          *)
(*   external_source  "null" = NULL, "facebook_post", "webflow_item"       *)
(*   a URL            a record [abs, base, query]; abs is FALSE for a      *)
(*                    string that `new URL` rejects                        *)
(*   a storage key    a number (the code draws a random UUID)              *)
(***************************************************************************)
EXTENDS Integers, Sequences, FiniteSets, TLC

\* ---------------------------------------------------------------- bounds
\* number of distinct upstream post ids
NumPosts == 1
\* AUTOINCREMENT ceiling of events.id (rows ever inserted)
MaxEvents == 3
\* AUTOINCREMENT ceiling of event_photos.id and of generated storage keys
MaxPhotos == 3

\* ------------------------------------------------------------ value sets
Null == 0
PostIds == 1..NumPosts
WebflowItemId(eid) == 100 + eid

Url(b, q) == [abs |-> TRUE, base |-> b, query |-> q]
UrlA == Url("A", "")
UrlB == Url("B", "")
UrlC == Url("C", "")
UrlAq == Url("A", "x")
NoUrl == [abs |-> FALSE, base |-> "", query |-> ""]

\* URL lists a post's attachment tree can yield (extractPhotoUrls)
UrlLists == { <<UrlA, UrlB>>, <<UrlB, UrlC>>, <<UrlA, UrlB, UrlA>>, <<UrlAq>> }

\* A sighting of an upstream post: id (Null when the post carries none),
\* text (TRUE when message or story is non-empty), body (the text content
\* that ends up in the event fields), urls (what extractPhotoUrls returns)
\* and full_picture.
Post(i, t, b, us, fp) == [id |-> i, text |-> t, body |-> b, urls |-> us, full_picture |-> fp]

\* sightings without attachments, one per upstream post id, and one of a
\* post that carries no id
PlainSightings ==
  { Post(i, TRUE, "t1", <<>>, NoUrl) : i \in PostIds }
    \cup { Post(Null, TRUE, "t1", <<>>, NoUrl) }

\* sightings of post 1 as its attachments change upstream
PhotoSightings ==
  { Post(1, TRUE, "t1", us, NoUrl) : us \in UrlLists }
    \cup { Post(1, TRUE, "t2", <<>>, UrlC) }

\* outcome of persisting one photo URL: stored, the download fails, or the
\* blob is stored and the row insert fails
PhotoOutcomes == {"ok", "fetch_failed", "insert_failed"}

\* ----------------------------------------------------------------- state
VARIABLES
  events,      \* rows of table events
  photos,      \* rows of table event_photos
  bucket,      \* storage keys present in EVENT_PHOTOS_BUCKET
  seqEvents,   \* sqlite_sequence of events (last AUTOINCREMENT id)
  seqPhotos,   \* sqlite_sequence of event_photos
  seqKeys,     \* number of storage keys generated so far
  feed,        \* the upstream page feed, newest post first
  tail,        \* whether the feed's last page still carries an `after` cursor
  secret,      \* whether WEBHOOK_SECRET is configured
  inflight,    \* chained requests handed to ctx.waitUntil, not yet answered
  running,     \* the reconciliations under way, each at its next statement
  last         \* the last completed handler call and what it returned

vars == <<events, photos, bucket, seqEvents, seqPhotos, seqKeys,
          feed, tail, secret, inflight, running, last>>

\* two invocations of the worker that may overlap; none of them is
\* inside upsertFacebookPost
Workers == {1, 2}
Idle == [pc |-> "idle"]
NoneRunning == [w \in Workers |-> Idle]

\* what the store handlers never touch
upstream == <<feed, tail, secret, inflight, running>>

\* the store as one value, threaded through the operators below
Db == [events |-> events, photos |-> photos, bucket |-> bucket,
       seqEvents |-> seqEvents, seqPhotos |-> seqPhotos, seqKeys |-> seqKeys]

\* ------------------------------------------------------- pure functions
\* normalizeSourceUrl: query string and fragment stripped; a string that
\* `new URL` rejects is returned unchanged.
normalizeSourceUrl(url) ==
  IF url.abs THEN [url EXCEPT !.query = ""] ELSE url

\* photoUrls of upsertFacebookPost: the extracted list, or the single
\* full_picture when the list is empty.
PhotoUrlsOf(post) ==
  IF Len(post.urls) = 0 /\ post.full_picture # NoUrl
    THEN <<post.full_picture>>
    ELSE post.urls

SeqRange(s) == { s[i] : i \in 1..Len(s) }

\* A SELECT without ORDER BY returns rows in an order the program does not
\* control: `pref` names the rows the scan happens to return first (for
\* .first()) or last (for a Map that later rows overwrite).
PickRow(cands, pref) ==
  LET preferred == { r \in cands : r.id \in pref }
      pool == IF preferred # {} THEN preferred ELSE cands
  IN CHOOSE r \in pool : \A o \in pool : r.id <= o.id

\* -------------------------------------------------- persistPhotoFromUrl
\* Fetch the URL, put the bytes under a fresh key, insert the photo row.
\* Returns the store; a thrown error leaves what was written before it.
\* variant: the row is inserted whatever became of the download
persistPhotoRowAlways(db, eventId, sourceUrl, position, outcome) ==
  [db EXCEPT !.seqPhotos = @ + 1,
             !.photos = @ \cup {[id |-> db.seqPhotos + 1,
                                 event_id |-> eventId,
                                 storage_key |-> db.seqKeys,
                                 original_source_url |-> sourceUrl,
                                 position |-> position]}]

\* variant: the INSERT goes through whether or not the event still exists
persistPhotoUnchecked(db, eventId, sourceUrl, position, outcome) ==
  IF outcome = "fetch_failed" THEN db
  ELSE
    LET key == db.seqKeys + 1
        withBlob == [db EXCEPT !.seqKeys = key, !.bucket = @ \cup {key}]
    IN IF outcome = "insert_failed" THEN withBlob
       ELSE [withBlob EXCEPT
               !.seqPhotos = @ + 1,
               !.photos = @ \cup {[id |-> db.seqPhotos + 1,
                                   event_id |-> eventId,
                                   storage_key |-> key,
                                   original_source_url |-> sourceUrl,
                                   position |-> position]}]

\* FOREIGN KEY (event_id) REFERENCES events(id): the store rejects the
\* INSERT of a photo row whose event is gone, after the blob was put
Owned(db, eventId) == \E e \in db.events : e.id = eventId

persistPhotoFromUrl(db, eventId, sourceUrl, position, outcome) ==
  IF outcome = "fetch_failed" THEN db
  ELSE
    LET key == db.seqKeys + 1
        withBlob == [db EXCEPT !.seqKeys = key, !.bucket = @ \cup {key}]
    IN IF outcome = "insert_failed" \/ ~Owned(db, eventId) THEN withBlob
       ELSE [withBlob EXCEPT
               !.seqPhotos = @ + 1,
               !.photos = @ \cup {[id |-> db.seqPhotos + 1,
                                   event_id |-> eventId,
                                   storage_key |-> key,
                                   original_source_url |-> sourceUrl,
                                   position |-> position]}]

\* ---------------------------------------------------- upsertFacebookPost
\* rows the reconciliation lookup selects
ExistingEvents(evs, postId) ==
  { e \in evs : e.external_id = postId /\ e.origin = "facebook" }

\* variant: the Map keyed by the stored URL as it is, query string included
ExistingBySourceRaw(existingPhotos, pref) ==
  [ n \in { p.original_source_url : p \in existingPhotos } |->
      PickRow({ p \in existingPhotos : p.original_source_url = n }, pref) ]

\* the Map existingBySource: normalized URL -> one of the event's rows
ExistingBySource(existingPhotos, pref) ==
  [ n \in { normalizeSourceUrl(p.original_source_url) : p \in existingPhotos } |->
      PickRow({ p \in existingPhotos : normalizeSourceUrl(p.original_source_url) = n }, pref) ]

\* the loop over photoUrls, from index i on, with the running position
RECURSIVE PhotoLoop(_, _, _, _, _, _, _)
PhotoLoop(db, eventId, urls, i, position, bySource, dl) ==
  IF i > Len(urls) THEN db
  ELSE
    LET url == urls[i]
        normalized == normalizeSourceUrl(url)
    IN IF normalized \in DOMAIN bySource
         THEN LET rowId == bySource[normalized].id
                  moved == { IF p.id = rowId THEN [p EXCEPT !.position = position] ELSE p
                             : p \in db.photos }
              IN PhotoLoop([db EXCEPT !.photos = moved], eventId, urls, i + 1,
                           position + 1, bySource, dl)
         ELSE PhotoLoop(persistPhotoFromUrl(db, eventId, url, position, dl[url]),
                        eventId, urls, i + 1, position + 1, bySource, dl)

\* the orphan sweep after the loop
RemoveOrphans(db, existingPhotos, seenSources) ==
  LET orphanIds == { p.id : p \in { q \in existingPhotos :
                       normalizeSourceUrl(q.original_source_url) \notin seenSources } }
  IN [db EXCEPT !.photos = { p \in @ : p.id \notin orphanIds }]

\* the event fields an upsert overwrites, as one value
ContentOf(post) == post.body

\* variant: the UPDATE also writes the identity and the flags of an INSERT
WriteEventRestamping(db, post, found, eventId) ==
  IF found
    THEN [db EXCEPT !.events =
            { IF e.id = eventId
                THEN [e EXCEPT !.content = ContentOf(post), !.sync = 1,
                               !.external_source = "facebook_post",
                               !.active = 1, !.approved = 0]
                ELSE e : e \in @ }]
    ELSE [db EXCEPT
            !.seqEvents = eventId,
            !.events = @ \cup {[id |-> eventId,
                                external_id |-> post.id,
                                external_source |-> "facebook_post",
                                content |-> ContentOf(post),
                                active |-> 1,
                                approved |-> 0,
                                origin |-> "facebook",
                                sync |-> 1,
                                first_seen |-> post.id]}]

\* variant: the row found is replaced, the new row takes a fresh id
WriteEventReplacing(db, post, found, eventId) ==
  LET fresh == IF found THEN db.seqEvents + 1 ELSE eventId
  IN [db EXCEPT
        !.seqEvents = fresh,
        !.events = { e \in @ : e.id # eventId }
                     \cup {[id |-> fresh,
                            external_id |-> post.id,
                            external_source |-> "facebook_post",
                            content |-> ContentOf(post),
                            active |-> 1,
                            approved |-> 0,
                            origin |-> "facebook",
                            sync |-> 1,
                            first_seen |-> post.id]}]

\* the UPDATE of the row found, or the INSERT of a new row under eventId
WriteEvent(db, post, found, eventId) ==
  IF found
    THEN [db EXCEPT !.events =
            { IF e.id = eventId
                THEN [e EXCEPT !.content = ContentOf(post), !.sync = 1]
                ELSE e : e \in @ }]
    ELSE [db EXCEPT
            !.seqEvents = eventId,
            !.events = @ \cup {[id |-> eventId,
                                external_id |-> post.id,
                                external_source |-> "facebook_post",
                                content |-> ContentOf(post),
                                active |-> 1,
                                approved |-> 0,
                                origin |-> "facebook",
                                sync |-> 1,
                                first_seen |-> post.id]}]

upsertFacebookPost(db, post, dl, scan) ==
  IF post.id = Null
    THEN [db |-> db, processed |-> FALSE, inserted |-> FALSE, updated |-> FALSE, eventId |-> 0]
  ELSE
    LET existing == ExistingEvents(db.events, post.id)
        found == existing # {}
        eventId == IF found THEN PickRow(existing, scan.events).id ELSE db.seqEvents + 1
        written == WriteEvent(db, post, found, eventId)
        existingPhotos == { p \in written.photos : p.event_id = eventId }
        bySource == ExistingBySource(existingPhotos, scan.photos)
        photoUrls == PhotoUrlsOf(post)
        seenSources == { normalizeSourceUrl(u) : u \in SeqRange(photoUrls) }
        looped == PhotoLoop(written, eventId, photoUrls, 1, 0, bySource, dl)
    IN [db |-> RemoveOrphans(looped, existingPhotos, seenSources),
        processed |-> TRUE, inserted |-> ~found, updated |-> found, eventId |-> eventId]

\* rows a scan may return in either order: they share a lookup key
DupEventIds(evs) ==
  { x.id : x \in { e \in evs : \E y \in evs :
       y.id # e.id /\ y.external_id = e.external_id
       /\ e.origin = "facebook" /\ y.origin = "facebook" } }

DupPhotoIds(phs) ==
  { x.id : x \in { p \in phs : \E y \in phs :
       y.id # p.id /\ y.event_id = p.event_id
       /\ normalizeSourceUrl(y.original_source_url) = normalizeSourceUrl(p.original_source_url) } }

\* the scan orders one invocation can meet
Scans(db) ==
  [events : SUBSET DupEventIds(db.events), photos : SUBSET DupPhotoIds(db.photos)]

\* ------------------------------------------------------- cleanDuplicates
\* ROW_NUMBER() OVER (PARTITION BY key ORDER BY id) > 1: every row that
\* is not the lowest id of its partition
SourceAndId(e) == <<e.external_source, e.external_id>>
ExternalIdOnly(e) == e.external_id

\* variant: ORDER BY id DESC, every row but the highest id of its partition
DupEventsKeepHighest(evs) ==
  LET rows == { e \in evs : e.external_source # "null" /\ e.external_id # Null }
  IN { r.id : r \in { x \in rows :
         \E y \in rows : SourceAndId(y) = SourceAndId(x) /\ y.id > x.id } }

\* first pass: partition by (external_source, external_id), both non-NULL
DupEvents(evs) ==
  LET rows == { e \in evs : e.external_source # "null" /\ e.external_id # Null }
  IN { r.id : r \in { x \in rows :
         \E y \in rows : SourceAndId(y) = SourceAndId(x) /\ y.id < x.id } }

\* second pass: partition by external_id among origin = 'facebook'
DupByExternalId(evs) ==
  LET rows == { e \in evs : e.external_id # Null /\ e.origin = "facebook" }
  IN { r.id : r \in { x \in rows :
         \E y \in rows : ExternalIdOnly(y) = ExternalIdOnly(x) /\ y.id < x.id } }

\* the statements one removal issues, in the order the code awaits them:
\* the bucket deletes of the collected storage keys, then the DELETE
Issued(ids, keys, rows) ==
  IF ids = {} THEN <<>>
  ELSE << [op |-> "blobs", keys |-> keys], [op |-> "rows", photos |-> rows] >>

PhotoRows(phs, ids) == { q \in phs : q.event_id \in ids }

EventSteps(db, ids) ==
  Issued(ids, { p.storage_key : p \in PhotoRows(db.photos, ids) },
         { p.id : p \in PhotoRows(db.photos, ids) })

PhotoSteps(toDelete) ==
  Issued(toDelete, { d.storage_key : d \in toDelete }, { d.id : d \in toDelete })

\* variant: a bucket delete that fails is not caught, the DELETE never runs
DeleteEventsUncaught(db, ids, failKeys) ==
  LET keys == { p.storage_key : p \in { q \in db.photos : q.event_id \in ids } }
  IN IF keys \cap failKeys # {} THEN db
     ELSE [db EXCEPT !.bucket = @ \ keys,
                     !.events = { e \in @ : e.id \notin ids },
                     !.photos = { p \in @ : p.event_id \notin ids }]

\* delete the blobs of the events' photos (a failing delete is swallowed),
\* then the event rows; event_photos rows go with them (ON DELETE CASCADE)
DeleteEvents(db, ids, failKeys) ==
  LET keys == { p.storage_key : p \in { q \in db.photos : q.event_id \in ids } }
  IN [db EXCEPT !.bucket = @ \ (keys \ failKeys),
                !.events = { e \in @ : e.id \notin ids },
                !.photos = { p \in @ : p.event_id \notin ids }]

\* third pass: per event and normalized URL keep the lowest photo id
\* variant: rows grouped by the stored URL as it is
DupPhotosRaw(phs) ==
  { p \in phs : \E o \in phs :
       /\ o.event_id = p.event_id
       /\ o.original_source_url = p.original_source_url
       /\ o.id < p.id }

DupPhotos(phs) ==
  { p \in phs : \E o \in phs :
       /\ o.event_id = p.event_id
       /\ normalizeSourceUrl(o.original_source_url) = normalizeSourceUrl(p.original_source_url)
       /\ o.id < p.id }

\* variant: a row whose bucket delete failed is kept
DeletePhotosIfBlobGone(db, toDelete, failKeys) ==
  [db EXCEPT !.bucket = @ \ ({ d.storage_key : d \in toDelete } \ failKeys),
             !.photos = { p \in @ : p.id \notin { d.id : d \in toDelete }
                                      \/ p.storage_key \in failKeys }]

DeletePhotos(db, toDelete, failKeys) ==
  [db EXCEPT !.bucket = @ \ ({ d.storage_key : d \in toDelete } \ failKeys),
             !.photos = { p \in @ : p.id \notin { d.id : d \in toDelete } }]

cleanDuplicates(db, failKeys) ==
  LET ids1 == DupEvents(db.events)
      db1 == DeleteEvents(db, ids1, failKeys)
      ids2 == DupByExternalId(db1.events)
      db2 == DeleteEvents(db1, ids2, failKeys)
      toDelete == DupPhotos(db2.photos)
      db3 == DeletePhotos(db2, toDelete, failKeys)
  IN [db |-> db3,
      eventsRemoved |-> Cardinality(ids1) + Cardinality(ids2),
      photosRemoved |-> Cardinality(toDelete),
      steps |-> EventSteps(db, ids1) \o EventSteps(db1, ids2) \o PhotoSteps(toDelete)]

\* --------------------------------------------------- syncFromD1ToWebflow
\* rows the push selects
NeedsPush(evs) == { e \in evs : e.origin = "facebook" /\ e.sync = 1 }

\* upsertWebflowItem: PATCH of the item external_id names when the row
\* already points at a Webflow item, POST of a new item otherwise
IsUpdate(e) == e.external_source = "webflow_item" /\ e.external_id # Null
ReturnedItemId(e) == IF IsUpdate(e) THEN e.external_id ELSE WebflowItemId(e.id)

\* out[id] is what the CMS call for event id does: "fail" (throws),
\* "id" (response carries the item id) or "noid" (response has no id)
WebflowOutcomes == {"fail", "id", "noid"}

\* variant: the row is marked whether or not the CMS call succeeded
syncFromD1ToWebflowMarkAll(db, out) ==
  LET selected == NeedsPush(db.events)
      mark(e) == [e EXCEPT
                    !.external_id = IF out[e.id] = "id" THEN ReturnedItemId(e) ELSE @,
                    !.external_source = "webflow_item",
                    !.sync = 0]
  IN [db |-> [db EXCEPT !.events = { IF e \in selected THEN mark(e) ELSE e : e \in @ }],
      eventsSynced |-> Cardinality(selected)]

syncFromD1ToWebflow(db, out) ==
  LET selected == NeedsPush(db.events)
      pushed == { e \in selected : out[e.id] # "fail" }
      mark(e) == [e EXCEPT
                    !.external_id = IF out[e.id] = "id" THEN ReturnedItemId(e) ELSE @,
                    !.external_source = "webflow_item",
                    !.sync = 0]
  IN [db |-> [db EXCEPT !.events = { IF e \in pushed THEN mark(e) ELSE e : e \in @ }],
      eventsSynced |-> Cardinality(pushed)]

\* ------------------------------------------------------------ createEvent
\* request bodies of POST /api/events
Body(name, xid, src, org, appr, ps) ==
  [event_name_line_1 |-> name, external_id |-> xid, external_source |-> src,
   origin |-> org, approved |-> appr, photos |-> ps]
Bodies ==
  { Body(TRUE, 1, "facebook_post", "facebook", 0, <<>>),
    Body(TRUE, 1, "null", "facebook", 0, <<>>),
    Body(FALSE, Null, "null", "webflow", 0, <<>>) }

\* more bodies: a row that names a Webflow item, rows of origin 'webflow'
\* (any origin but 'facebook' is stored as 'webflow'), a row with no
\* external identity
WiderBodies ==
  Bodies \cup
  { Body(TRUE, 1, "webflow_item", "facebook", 0, <<>>),
    Body(TRUE, 1, "facebook_post", "absent", 0, <<>>),
    Body(TRUE, Null, "null", "webflow", 0, <<>>) }

RECURSIVE CreatePhotos(_, _, _, _, _)
CreatePhotos(db, eventId, srcs, i, dl) ==
  IF i > Len(srcs) THEN db
  ELSE CreatePhotos(persistPhotoFromUrl(db, eventId, srcs[i], i - 1, dl[srcs[i]]),
                    eventId, srcs, i + 1, dl)

createEvent(db, body, dl) ==
  IF ~body.event_name_line_1
    THEN [db |-> db, status |-> 400, id |-> 0]
  ELSE
    LET eventId == db.seqEvents + 1
        row == [id |-> eventId,
                external_id |-> body.external_id,
                external_source |-> body.external_source,
                content |-> "manual",
                active |-> 1,
                approved |-> body.approved,
                origin |-> IF body.origin = "facebook" THEN "facebook" ELSE "webflow",
                sync |-> 1,
                first_seen |-> Null]
        inserted == [db EXCEPT !.seqEvents = eventId, !.events = @ \cup {row}]
    IN [db |-> CreatePhotos(inserted, eventId, body.photos, 1, dl),
        status |-> 200, id |-> eventId]

\* ------------------------------------------------------------ the feed
\* program constants of the batch controller and the feed client
DefaultLimit == 25
MaxLimit == 100
DefaultMaxTotal == 10
PageCeiling == 20

\* bounds of the batch model
\* length of the short feed
FeedLen == 3
\* chained requests in flight at one time
MaxInflight == 1
\* AUTOINCREMENT ceiling of events.id under the batch triggers
MaxFeedEvents == 12

Min2(a, b) == IF a < b THEN a ELSE b

\* a feed item with message or story text, and one with neither that
\* carries a picture
Qualifying(i) == Post(i, TRUE, "t1", <<>>, NoUrl)
Noise(i) == Post(i, FALSE, "", <<>>, UrlA)

\* a short feed of qualifying posts
SmallFeed == [i \in 1..FeedLen |-> Qualifying(i)]
\* two pages of ten: three qualifying posts, then seven without text
TargetingFeed ==
  [i \in 1..20 |-> IF (i - 1) % 10 < 3 THEN Qualifying(i) ELSE Noise(i)]
\* more pages of one than the page ceiling, only the last post qualifying
LongFeed ==
  [i \in 1..(PageCeiling + 2) |-> IF i = PageCeiling + 2 THEN Qualifying(i) ELSE Noise(i)]
\* one more qualifying post than the default target
BigFeed == [i \in 1..(DefaultMaxTotal + 1) |-> Qualifying(i)]
Feeds == {SmallFeed, TargetingFeed, LongFeed, BigFeed}

\* posts of the feed the batch controller does not filter out and the
\* reconciliation accepts
QualifyingIds(fd) ==
  { fd[i].id : i \in { j \in DOMAIN fd : fd[j].text /\ fd[j].id # Null } }

\* A number as the ratio num/den of two integers, den positive; a
\* parameter that may be absent
Ratio(n, d) == [num |-> n, den |-> d]
Whole(n) == Ratio(n, 1)
Given(r) == [present |-> TRUE, value |-> r]
AbsentNumber == [present |-> FALSE, value |-> Whole(0)]
\* the model's whole-number parameters, 0 standing for an absent one
FromInt(n) == IF n = 0 THEN AbsentNumber ELSE Given(Whole(n))

\* Math.min(r, n), n whole
MinWith(r, n) == IF r.num <= n * r.den THEN r ELSE Whole(n)

\* Number(url.searchParams.get("limit")) || undefined
HandlerLimit(param) ==
  IF param.present /\ param.value.num # 0 THEN param ELSE AbsentNumber

\* opts?.limit || 25
SyncLimit(opt) ==
  IF opt.present /\ opt.value.num # 0 THEN opt.value ELSE Whole(DefaultLimit)

\* opts?.limit && opts.limit > 0 ? Math.min(opts.limit, 100) : 25
FeedLimit(opt) ==
  IF opt.present /\ opt.value.num # 0 /\ opt.value.num > 0
    THEN MinWith(opt.value, MaxLimit)
    ELSE Whole(DefaultLimit)

\* the limit the Graph API is sent for a limit parameter of the sync route
SentLimit(param) == FeedLimit(Given(SyncLimit(HandlerLimit(param))))

\* fetchFacebookFeed: one page of at most `limit` posts after the cursor.
\* A cursor is the number of feed items before it (0: no cursor).  The
\* Graph API answers the last page with or without an `after` cursor
\* (tl), and a page past the end with no data and no cursor.
fetchFacebookFeed(fd, tl, optLimit, cursor) ==
  LET limit == FeedLimit(FromInt(optLimit)).num
      hi == Min2(cursor + limit, Len(fd))
      posts == IF cursor >= Len(fd) THEN <<>> ELSE SubSeq(fd, cursor + 1, hi)
  IN [posts |-> posts,
      nextCursor |-> IF posts = <<>> \/ (hi = Len(fd) /\ ~tl) THEN 0 ELSE hi]

\* -------------------------------------------------- syncFromFacebookToD1
\* a request URL of the worker: 0 stands for an absent number parameter,
\* "none" for an absent token
Request(h, p, ch, cur, mx, lim, tok, vtok) ==
  [host |-> h, path |-> p, chain |-> ch, cursor |-> cur, max |-> mx,
   limit |-> lim, token |-> tok, verify_token |-> vtok]

\* opts of one invocation
Opts(mx, lim, cur, ch) == [maxTotal |-> mx, limit |-> lim, cursor |-> cur, shouldChain |-> ch]

\* what goes wrong during one invocation: early, the posts whose first
\* store statement (the lookup) throws; late, the posts whose photo query
\* throws after the event row is written; feedAt, the number of the page
\* request the Graph API answers with a non-2xx status (0: none), status
\* and body being that answer
Faults(early, late, feedAt, status, body) ==
  [early |-> early, late |-> late, feedAt |-> feedAt, status |-> status, body |-> body]
NoFaults == Faults({}, {}, 0, 0, "")

\* the error fetchFacebookFeed throws: its message is built from the
\* upstream status and the upstream body
NoError == [kind |-> "none", status |-> 0, text |-> ""]
\* variant: an error that says only that the request failed
FacebookApiErrorBare(status, text) ==
  [kind |-> "Facebook API error", status |-> 0, text |-> ""]

FacebookApiError(status, text) ==
  [kind |-> "Facebook API error", status |-> status, text |-> text]

\* variant: a post whose reconciliation threw is counted all the same
CaughtCounted(r, db, post, faults) ==
  [db |-> r.db, processed |-> TRUE, inserted |-> r.inserted,
   updated |-> r.updated, threw |-> FALSE]

\* the try/catch around one post's reconciliation: r is what
\* upsertFacebookPost does when no store statement fails.  A post without
\* id returns before the first statement, so nothing can fail for it.
Caught(r, db, post, faults) ==
  IF post.id # Null /\ post.id \in faults.early
    THEN [db |-> db, processed |-> FALSE, inserted |-> FALSE, updated |-> FALSE,
          threw |-> TRUE]
  ELSE IF post.id # Null /\ post.id \in faults.late
    THEN [db |-> r.db, processed |-> FALSE, inserted |-> FALSE, updated |-> FALSE,
          threw |-> TRUE]
  ELSE [db |-> r.db, processed |-> r.processed, inserted |-> r.inserted,
        updated |-> r.updated, threw |-> FALSE]

\* variant: an update is counted as processed only
CountedInsertsOnly(st, r, postId) ==
  IF r.processed
    THEN [st EXCEPT !.db = r.db,
                    !.processed = @ + 1,
                    !.inserted = @ + (IF r.inserted THEN 1 ELSE 0),
                    !.seen = @ \cup {postId}]
    ELSE [st EXCEPT !.db = r.db,
                    !.failed = @ \cup (IF r.threw THEN {postId} ELSE {}),
                    !.skipped = @ + (IF r.threw THEN 0 ELSE 1)]

\* variant: every post handed to the reconciliation is counted
CountedAlways(st, r, postId) ==
  [st EXCEPT !.db = r.db,
             !.processed = @ + 1,
             !.inserted = @ + (IF r.inserted THEN 1 ELSE 0),
             !.updated = @ + (IF r.updated THEN 1 ELSE 0),
             !.seen = @ \cup {postId}]

\* one post reconciled: r is what the try block returned or threw
Counted(st, r, postId) ==
  IF r.processed
    THEN [st EXCEPT !.db = r.db,
                    !.processed = @ + 1,
                    !.inserted = @ + (IF r.inserted THEN 1 ELSE 0),
                    !.updated = @ + (IF r.updated THEN 1 ELSE 0),
                    !.seen = @ \cup {postId}]
    ELSE [st EXCEPT !.db = r.db,
                    !.failed = @ \cup (IF r.threw THEN {postId} ELSE {}),
                    !.skipped = @ + (IF r.threw THEN 0 ELSE 1)]

\* the loop over one page's posts; st carries the store, the counters,
\* seen (the ids of the posts reconciled so far), failed (the ids of the
\* posts whose reconciliation threw), skipped (the posts reconciliation
\* declined) and the faults of the invocation
\* the photo downloads of a batch run: every one succeeds
Downloaded(post) == [ u \in SeqRange(PhotoUrlsOf(post)) |-> "ok" ]

\* variant: without the filter on message and story
RECURSIVE PostLoopUnfiltered(_, _, _, _, _)
PostLoopUnfiltered(st, posts, i, maxTotal, scan) ==
  IF i > Len(posts) THEN st
  ELSE IF st.processed >= maxTotal THEN st
  ELSE PostLoopUnfiltered(Counted(st, Caught(upsertFacebookPost(st.db, posts[i], Downloaded(posts[i]), scan),
                                             st.db, posts[i], st.faults),
                                  posts[i].id),
                          posts, i + 1, maxTotal, scan)

\* variant: without the "Stop if we've hit our goal" break
RECURSIVE PostLoopUnbounded(_, _, _, _, _)
PostLoopUnbounded(st, posts, i, maxTotal, scan) ==
  IF i > Len(posts) THEN st
  ELSE IF ~posts[i].text THEN PostLoopUnbounded(st, posts, i + 1, maxTotal, scan)
  ELSE PostLoopUnbounded(Counted(st, Caught(upsertFacebookPost(st.db, posts[i], Downloaded(posts[i]), scan),
                                            st.db, posts[i], st.faults),
                                 posts[i].id),
                         posts, i + 1, maxTotal, scan)

RECURSIVE PostLoop(_, _, _, _, _)
PostLoop(st, posts, i, maxTotal, scan) ==
  IF i > Len(posts) THEN st
  ELSE IF ~posts[i].text THEN PostLoop(st, posts, i + 1, maxTotal, scan)
  ELSE IF st.processed >= maxTotal THEN st
  ELSE PostLoop(Counted(st, Caught(upsertFacebookPost(st.db, posts[i], Downloaded(posts[i]), scan),
                                   st.db, posts[i], st.faults),
                        posts[i].id),
                posts, i + 1, maxTotal, scan)

\* "Save the cursor for potential chaining"
SaveCursor(st, nextCursor) ==
  IF nextCursor # 0 THEN [st EXCEPT !.lastCursor = nextCursor] ELSE st

\* the loop over pages; st also carries cursor, iterations, lastCursor,
\* fetches (the pages requested) and stop (why the loop ended)
RECURSIVE PageLoop(_, _, _, _, _, _)
RECURSIVE PageStep(_, _, _, _, _, _, _)
RECURSIVE AfterPage(_, _, _, _, _, _, _)
PageLoop(st, fd, tl, limit, maxTotal, scan) ==
  IF st.processed >= maxTotal THEN [st EXCEPT !.stop = "target"]
  ELSE IF st.iterations >= PageCeiling THEN [st EXCEPT !.stop = "ceiling"]
  ELSE IF st.faults.feedAt = st.fetches + 1
    THEN [st EXCEPT !.fetches = @ + 1, !.stop = "error",
                    !.error = FacebookApiError(st.faults.status, st.faults.body)]
  ELSE PageStep([st EXCEPT !.fetches = @ + 1],
                fetchFacebookFeed(fd, tl, limit, st.cursor), fd, tl, limit, maxTotal, scan)

\* one pass of the loop body, page being what the feed client returned
PageStep(st, page, fd, tl, limit, maxTotal, scan) ==
  IF Len(page.posts) = 0 THEN [st EXCEPT !.stop = "empty"]
  ELSE AfterPage(SaveCursor(PostLoop(st, page.posts, 1, maxTotal, scan), page.nextCursor),
                 page.nextCursor, fd, tl, limit, maxTotal, scan)

\* "If we've processed enough posts or there's no more data, stop"
AfterPage(st, nextCursor, fd, tl, limit, maxTotal, scan) ==
  IF st.processed >= maxTotal THEN [st EXCEPT !.stop = "target"]
  ELSE IF nextCursor = 0 THEN [st EXCEPT !.stop = "exhausted"]
  ELSE PageLoop([st EXCEPT !.cursor = nextCursor, !.iterations = @ + 1],
                fd, tl, limit, maxTotal, scan)

\* variant: more data whenever a cursor was seen
HasMoreCursorOnly(processed, maxTotal, lastCursor) == lastCursor # 0

\* hasMore of the summary
HasMore(processed, maxTotal, lastCursor) ==
  processed >= maxTotal /\ lastCursor # 0

\* variant: chain whenever asked to and a cursor was seen
ShouldChainAnyCursor(hasMore, shouldChain, lastCursor) ==
  shouldChain /\ lastCursor # 0

\* the condition under which the next batch is triggered
ShouldChain(hasMore, shouldChain, lastCursor) ==
  hasMore /\ shouldChain /\ lastCursor # 0

\* nextUrl: path and origin of the request URL, chain, cursor, and the
\* token parameter when the request URL has one
NextUrl(requestUrl, opts, lastCursor) ==
  Request(requestUrl.host, requestUrl.path, opts.shouldChain, lastCursor, 0, 0,
          requestUrl.token, "none")

\* what the caller has of a batch that returned nothing
NoSummary ==
  [eventsProcessed |-> 0, inserted |-> 0, updated |-> 0, nextCursor |-> 0,
   hasMore |-> FALSE]

\* the summary, and the chained request when one is triggered; st is the
\* state the page loop ended in.  When the feed client threw, the
\* function is left at the throw: no summary, no chained request.
Summarized(st, requestUrl, opts, maxTotal, limit, hasMore) ==
  [db |-> st.db,
   summary |-> IF st.stop = "error" THEN NoSummary
               ELSE [eventsProcessed |-> st.processed, inserted |-> st.inserted,
                     updated |-> st.updated, nextCursor |-> st.lastCursor,
                     hasMore |-> hasMore],
   followUps |-> IF st.stop # "error"
                    /\ ShouldChain(hasMore, opts.shouldChain, st.lastCursor)
                   THEN <<NextUrl(requestUrl, opts, st.lastCursor)>>
                   ELSE <<>>,
   maxTotal |-> maxTotal, limit |-> limit, seen |-> st.seen,
   fetches |-> st.fetches, stop |-> st.stop, error |-> st.error,
   failed |-> st.failed, skipped |-> st.skipped, counted |-> st.processed,
   faults |-> st.faults]

WithHasMore(st, requestUrl, opts, maxTotal, limit) ==
  Summarized(st, requestUrl, opts, maxTotal, limit,
             HasMore(st.processed, maxTotal, st.lastCursor))

StartOfBatch(db, opts, faults) ==
  [db |-> db, processed |-> 0, inserted |-> 0, updated |-> 0, seen |-> {},
   cursor |-> opts.cursor, iterations |-> 0, lastCursor |-> 0,
   fetches |-> 0, stop |-> "none", error |-> NoError, failed |-> {},
   skipped |-> 0, faults |-> faults]

LimitOf(opts) == SyncLimit(FromInt(opts.limit)).num
MaxTotalOf(opts) == IF opts.maxTotal > 0 THEN opts.maxTotal ELSE DefaultMaxTotal

syncFromFacebookToD1(db, fd, tl, requestUrl, opts, scan, faults) ==
  WithHasMore(PageLoop(StartOfBatch(db, opts, faults), fd, tl, LimitOf(opts), MaxTotalOf(opts), scan),
              requestUrl, opts, MaxTotalOf(opts), LimitOf(opts))

\* ------------------------------------------------------------ the router
SyncPath == "/api/sync/facebook"
WebhookPath == "/api/webhook/facebook"
WorkerHost == "worker"
SchedulerUrl == Request("scheduled.run", "/", FALSE, 0, 0, 0, "none", "none")

\* an invocation that ran no batch
NoBatch(db, status) ==
  [db |-> db, status |-> status, ran |-> FALSE, opts |-> Opts(0, 0, 0, FALSE),
   summary |-> NoSummary,
   followUps |-> <<>>, maxTotal |-> 0, limit |-> 0, seen |-> {}, fetches |-> 0,
   stop |-> "none", error |-> NoError, failed |-> {}, skipped |-> 0, counted |-> 0,
   faults |-> NoFaults]

\* an invocation that ran the batch r: the sync route answers a thrown
\* error with status 500, the webhook route has answered already
Ran(r, opts, url) ==
  [db |-> r.db, status |-> IF r.stop = "error" /\ url.path = SyncPath THEN 500 ELSE 200,
   ran |-> TRUE, opts |-> opts, summary |-> r.summary,
   followUps |-> r.followUps, maxTotal |-> r.maxTotal, limit |-> r.limit,
   seen |-> r.seen, fetches |-> r.fetches, stop |-> r.stop, error |-> r.error,
   failed |-> r.failed, skipped |-> r.skipped, counted |-> r.counted,
   faults |-> r.faults]

\* the token the webhook POST reads: token, or else verify_token
PresentedToken(url) == IF url.token # "none" THEN url.token ELSE url.verify_token

\* opts the route hands to the batch: the URL's parameters on the sync
\* route, chaining alone on the webhook route
RouteOpts(url) ==
  IF url.path = SyncPath THEN Opts(url.max, url.limit, url.cursor, url.chain)
  ELSE Opts(0, 0, 0, TRUE)

\* fetch, for a POST to one of the two batch routes: "good" is the token
\* equal to WEBHOOK_SECRET
fetchHandler(db, fd, tl, sec, url, scan, faults) ==
  IF url.path \notin {SyncPath, WebhookPath} THEN NoBatch(db, 404)
  ELSE IF url.path = WebhookPath /\ sec /\ PresentedToken(url) # "good"
    THEN NoBatch(db, 401)
  ELSE Ran(syncFromFacebookToD1(db, fd, tl, url, RouteOpts(url), scan, faults),
           RouteOpts(url), url)

\* the CMS push that ends a cron run, every call ending the same way, o;
\* a batch that threw ends the run before the push
PushAll(r, o) ==
  IF r.stop = "error" THEN r
  ELSE
  [r EXCEPT !.db = syncFromD1ToWebflow(
                     r.db, [i \in { e.id : e \in NeedsPush(r.db.events) } |-> o]).db]

\* scheduled: dedupe, batch from the first page with chaining, CMS push
scheduledHandler(db, fd, tl, failKeys, scan, o, faults) ==
  Ran(PushAll(syncFromFacebookToD1(cleanDuplicates(db, failKeys).db, fd, tl,
                                   SchedulerUrl, Opts(0, 0, 0, TRUE), scan, faults), o),
      Opts(0, 0, 0, TRUE), SchedulerUrl)

\* ------------------------------------------------------------- actions
Install(db) ==
  /\ events' = db.events
  /\ photos' = db.photos
  /\ bucket' = db.bucket
  /\ seqEvents' = db.seqEvents
  /\ seqPhotos' = db.seqPhotos
  /\ seqKeys' = db.seqKeys

WithinBounds(db) ==
  /\ db.seqEvents <= MaxEvents
  /\ db.seqPhotos <= MaxPhotos
  /\ db.seqKeys <= MaxPhotos

\* history: the call before this one was upsertFacebookPost on the same
\* sighting, it inserted the event and all its downloads succeeded
SameCallAgain(post) ==
  /\ last.op = "upsert"
  /\ last.post = post
  /\ last.inserted
  /\ last.allOk

\* history: the size of the largest (external_source, external_id) group
GroupOf(evs, e) ==
  { x \in evs : x.external_source = e.external_source /\ x.external_id = e.external_id }
Keyed(evs) == { e \in evs : e.external_source # "null" /\ e.external_id # Null }
LargestGroup(evs) ==
  IF Keyed(evs) = {} THEN 0
  ELSE LET sizes == { Cardinality(GroupOf(evs, e)) : e \in Keyed(evs) }
       IN CHOOSE n \in sizes : \A m \in sizes : m <= n

\* history: the URLs the call hands to persistPhotoFromUrl, those no row
\* of the event matches by normalized source before the call
Attempted(dl, phs, eventId) ==
  { u \in DOMAIN dl :
      normalizeSourceUrl(u) \notin
        { normalizeSourceUrl(p.original_source_url) : p \in { q \in phs : q.event_id = eventId } } }

\* one call of upsertFacebookPost on a sighting of a post
ReconcileIn(sightings) ==
  \E post \in sightings :
    \E dl \in [SeqRange(PhotoUrlsOf(post)) -> PhotoOutcomes] :
      \E scan \in Scans(Db) :
        LET r == upsertFacebookPost(Db, post, dl, scan)
        IN /\ WithinBounds(r.db)
           /\ Install(r.db)
           /\ UNCHANGED upstream
           /\ last' = [op |-> "upsert", post |-> post,
                       allOk |-> \A u \in DOMAIN dl : dl[u] = "ok",
                       processed |-> r.processed, inserted |-> r.inserted,
                       updated |-> r.updated, eventId |-> r.eventId,
                       repeat |-> SameCallAgain(post), dl |-> dl,
                       attempted |-> Attempted(dl, photos, r.eventId)]

\* POST /api/events
CreateEventIn(bodies) ==
  \E body \in bodies :
    \E dl \in [SeqRange(body.photos) -> PhotoOutcomes] :
      LET r == createEvent(Db, body, dl)
      IN /\ WithinBounds(r.db)
         /\ Install(r.db)
         /\ UNCHANGED upstream
         /\ last' = [op |-> "create", status |-> r.status, id |-> r.id]

\* POST /api/maintenance/dedupe; prior is history: what the pass just
\* before this one removed (-1 when the step before was no dedupe pass)
Dedupe ==
  \E failKeys \in SUBSET bucket :
    LET r == cleanDuplicates(Db, failKeys)
    IN /\ Install(r.db)
       /\ UNCHANGED upstream
       /\ last' = [op |-> "dedupe", eventsRemoved |-> r.eventsRemoved,
                   photosRemoved |-> r.photosRemoved,
                   largestGroup |-> LargestGroup(events),
                   failKeys |-> failKeys, steps |-> r.steps,
                   prior |-> IF last.op = "dedupe"
                               THEN last.eventsRemoved + last.photosRemoved
                               ELSE 0 - 1]

\* POST /api/sync/webflow
SyncWebflow ==
  \E out \in [{ e.id : e \in NeedsPush(events) } -> WebflowOutcomes] :
    LET r == syncFromD1ToWebflow(Db, out)
    IN /\ Install(r.db)
       /\ UNCHANGED upstream
       /\ last' = [op |-> "webflow", eventsSynced |-> r.eventsSynced, out |-> out]

\* ------------------------------------------------------ batch triggers
\* a chained request in flight: the URL, and as history the trigger that
\* started the chain, the token its first request presented, the cursor
\* the scheduling invocation saved, whether the chain began at the first
\* page, the posts the chain has reconciled so far, and the target and
\* page limit the scheduling invocation ran with
Link(url, trigger, cred, saved, fromStart, done, by) ==
  [url |-> url, trigger |-> trigger, cred |-> cred, saved |-> saved,
   fromStart |-> fromStart, done |-> done, by |-> by]
NoLink == Link(SchedulerUrl, "none", "none", 0, FALSE, {}, [target |-> 0, limit |-> 0])

RemoveAt(s, i) == SubSeq(s, 1, i - 1) \o SubSeq(s, i + 1, Len(s))

\* the state after an invocation h that `via` triggered; link is the
\* chained request it answered (NoLink for a first request), pending the
\* requests still in flight
Invoked(h, via, url, link, pending) ==
  LET trigger == IF via = "followup" THEN link.trigger ELSE via
      cred == IF via = "followup" THEN link.cred ELSE PresentedToken(url)
      fromStart == IF via = "followup" THEN link.fromStart
                   ELSE h.opts.shouldChain /\ h.opts.cursor = 0
      done == (IF via = "followup" THEN link.done ELSE {}) \cup h.seen
      links == [ i \in 1..Len(h.followUps) |->
                   Link(h.followUps[i], trigger, cred, h.summary.nextCursor,
                        fromStart, done, [target |-> h.maxTotal, limit |-> h.limit]) ]
  IN /\ h.db.seqEvents <= MaxFeedEvents
     /\ Len(pending) + Len(links) <= MaxInflight
     /\ Install(h.db)
     /\ inflight' = pending \o links
     /\ UNCHANGED <<feed, tail, secret, running>>
     /\ last' = [op |-> "batch", via |-> via, trigger |-> trigger, url |-> url,
                 link |-> link, status |-> h.status, ran |-> h.ran,
                 shouldChain |-> h.opts.shouldChain, startCursor |-> h.opts.cursor,
                 target |-> h.maxTotal, limit |-> h.limit,
                 processed |-> h.summary.eventsProcessed,
                 inserted |-> h.summary.inserted, updated |-> h.summary.updated,
                 nextCursor |-> h.summary.nextCursor, hasMore |-> h.summary.hasMore,
                 scheduled |-> Len(h.followUps), fetches |-> h.fetches,
                 stop |-> h.stop, fromStart |-> fromStart, done |-> done,
                 seen |-> h.seen, counted |-> h.counted, failed |-> h.failed,
                 skipped |-> h.skipped, error |-> h.error, faults |-> h.faults]

\* parameter values of the on-demand trigger: max and limit (both
\* absent, a target below the page size, a target of 5 on pages of 10,
\* pages of one post); a request with a cursor is a follow-up
SyncParams ==
  { [max |-> 0, limit |-> 0], [max |-> 2, limit |-> FeedLen],
    [max |-> 5, limit |-> 10], [max |-> 0, limit |-> 1] }
\* token and verify_token of a webhook POST
WebhookTokens ==
  { [token |-> "good", verify_token |-> "none"],
    [token |-> "none", verify_token |-> "good"],
    [token |-> "bad", verify_token |-> "none"],
    [token |-> "none", verify_token |-> "none"] }

\* POST /api/sync/facebook?max=&limit=&chain=, under one of the given
\* faults
SyncRequestUnder(params, faultSet) ==
  \E par \in params, ch \in BOOLEAN, faults \in faultSet :
    \E scan \in Scans(Db) :
      LET url == Request(WorkerHost, SyncPath, ch, 0, par.max, par.limit, "none", "none")
      IN Invoked(fetchHandler(Db, feed, tail, secret, url, scan, faults),
                 "sync", url, NoLink, inflight)

SyncRequest == SyncRequestUnder(SyncParams, {NoFaults})

\* POST /api/webhook/facebook?token= or ?verify_token=
WebhookPostUnder(tokens, faultSet) ==
  \E tk \in tokens, faults \in faultSet :
    \E scan \in Scans(Db) :
      LET url == Request(WorkerHost, WebhookPath, FALSE, 0, 0, 0, tk.token, tk.verify_token)
      IN Invoked(fetchHandler(Db, feed, tail, secret, url, scan, faults),
                 "webhook", url, NoLink, inflight)

WebhookPost == WebhookPostUnder(WebhookTokens, {NoFaults})

\* how the CMS calls of a cron run end
ScheduledOutcomes == {"fail", "id"}

\* the cron trigger
ScheduledUnder(faultSet) ==
  \E failKeys \in SUBSET bucket, o \in ScheduledOutcomes, faults \in faultSet :
    \E scan \in Scans(Db) :
      Invoked(scheduledHandler(Db, feed, tail, failKeys, scan, o, faults),
              "scheduled", SchedulerUrl, NoLink, inflight)

Scheduled == ScheduledUnder({NoFaults})

\* a chained request reaches its host: the worker's fetch handler runs
\* it; a request to any other host starts no invocation here
DeliverChained ==
  \E i \in 1..Len(inflight) :
    LET link == inflight[i]
        pending == RemoveAt(inflight, i)
    IN IF link.url.host = WorkerHost
         THEN \E scan \in Scans(Db) :
                Invoked(fetchHandler(Db, feed, tail, secret, link.url, scan, NoFaults),
                        "followup", link.url, link, pending)
         ELSE /\ inflight' = pending
              /\ UNCHANGED <<events, photos, bucket, seqEvents, seqPhotos, seqKeys,
                             feed, tail, secret, running>>
              /\ last' = [op |-> "sent", via |-> "followup", trigger |-> link.trigger,
                          url |-> link.url, link |-> link]

\* variant: a failed chained fetch undoes what its chain had reconciled
LoseChainedRollingBack ==
  \E i \in 1..Len(inflight) :
    /\ inflight' = RemoveAt(inflight, i)
    /\ events' = { e \in events : e.first_seen \notin inflight[i].done }
    /\ UNCHANGED <<photos, bucket, seqEvents, seqPhotos, seqKeys,
                   feed, tail, secret, running>>
    /\ last' = [op |-> "lost", via |-> "followup", trigger |-> inflight[i].trigger,
                url |-> inflight[i].url, link |-> inflight[i]]

\* the chained fetch fails: logged, the link is lost
LoseChained ==
  \E i \in 1..Len(inflight) :
    /\ inflight' = RemoveAt(inflight, i)
    /\ UNCHANGED <<events, photos, bucket, seqEvents, seqPhotos, seqKeys,
                   feed, tail, secret, running>>
    /\ last' = [op |-> "lost", via |-> "followup", trigger |-> inflight[i].trigger,
                url |-> inflight[i].url, link |-> inflight[i]]

\* a short feed whose second post has text and no id
AnonFeed ==
  [i \in 1..FeedLen |-> IF i = 2 THEN Post(Null, TRUE, "t1", <<>>, NoUrl) ELSE Qualifying(i)]

\* failed page requests: the first answered 400, or the second 503
UpstreamAnswers ==
  { [feedAt |-> 1, status |-> 400, body |-> "invalid token"],
    [feedAt |-> 2, status |-> 503, body |-> "unavailable"] }

\* the faults of one invocation: at most one failing page request, and
\* store failures on the second post (before or after its event write)
\* or on the first and the third
StoreFaults ==
  { Faults({}, {}, 0, 0, ""), Faults({2}, {}, 0, 0, ""), Faults({}, {2}, 0, 0, ""),
    Faults({1}, {3}, 0, 0, "") }
FaultSets ==
  { [sf EXCEPT !.feedAt = a.feedAt, !.status = a.status, !.body = a.body] :
      sf \in StoreFaults, a \in UpstreamAnswers } \cup StoreFaults

\* max and limit of the on-demand trigger under faults: a target of two
\* on one page, pages of one post, pages of two posts
FaultParams ==
  { [max |-> 2, limit |-> FeedLen], [max |-> 0, limit |-> 1], [max |-> 0, limit |-> 2] }

\* a sighting of a post without id handed to the reconciliation
ReconcileAnonymous == ReconcileIn({AnonFeed[2]})
FaultySync == SyncRequestUnder(FaultParams, FaultSets)

InitFaults ==
  /\ events = {}
  /\ photos = {}
  /\ bucket = {}
  /\ seqEvents = 0
  /\ seqPhotos = 0
  /\ seqKeys = 0
  /\ feed \in {SmallFeed, AnonFeed}
  /\ tail \in BOOLEAN
  /\ secret = FALSE
  /\ inflight = <<>>
  /\ running = NoneRunning
  /\ last = [op |-> "none"]

InitBatch ==
  /\ events = {}
  /\ photos = {}
  /\ bucket = {}
  /\ seqEvents = 0
  /\ seqPhotos = 0
  /\ seqKeys = 0
  /\ feed \in Feeds
  /\ tail \in BOOLEAN
  /\ secret \in BOOLEAN
  /\ inflight = <<>>
  /\ running = NoneRunning
  /\ last = [op |-> "none"]

Init ==
  /\ events = {}
  /\ photos = {}
  /\ bucket = {}
  /\ seqEvents = 0
  /\ seqPhotos = 0
  /\ seqKeys = 0
  /\ feed = <<>>
  /\ tail = TRUE
  /\ secret = TRUE
  /\ inflight = <<>>
  /\ running = NoneRunning
  /\ last = [op |-> "none"]

Reconcile == ReconcileIn(PlainSightings)
ReconcilePhotos == ReconcileIn(PhotoSightings)
CreateEvent == CreateEventIn(Bodies)
CreateEventWider == CreateEventIn(WiderBodies)

\* the store under sightings, manual inserts, pushes and dedupe passes
Next == Reconcile \/ CreateEvent \/ Dedupe \/ SyncWebflow

Spec == Init /\ [][Next]_vars

\* one event's photo set under repeated sightings and dedupe passes
NextPhotos == ReconcilePhotos \/ Dedupe

SpecPhotos == Init /\ [][NextPhotos]_vars

\* the janitor over rows of every identity, without CMS pushes
NextJanitor == Reconcile \/ CreateEventWider \/ Dedupe

SpecJanitor == Init /\ [][NextJanitor]_vars

\* the batch controller under its three triggers and its own follow-ups
NextBatch == SyncRequest \/ WebhookPost \/ Scheduled \/ DeliverChained \/ LoseChained

SpecBatch == InitBatch /\ [][NextBatch]_vars

\* the batch controller when every chained request in flight is in the end
\* delivered or lost: the runtime keeps the invocation alive until the
\* promise handed to waitUntil settles
SpecChain == InitBatch /\ [][NextBatch]_vars /\ WF_vars(LoseChained \/ DeliverChained)

\* batch runs next to manual inserts, pushes and dedupe passes
SyncRequestCapped == seqEvents < MaxEvents /\ SyncRequest

NextSync ==
  \/ SyncRequestCapped
  \/ DeliverChained
  \/ LoseChained
  \/ CreateEvent
  \/ Dedupe
  \/ SyncWebflow

InitSync ==
  /\ events = {}
  /\ photos = {}
  /\ bucket = {}
  /\ seqEvents = 0
  /\ seqPhotos = 0
  /\ seqKeys = 0
  /\ feed = SmallFeed
  /\ tail \in BOOLEAN
  /\ secret = TRUE
  /\ inflight = <<>>
  /\ running = NoneRunning
  /\ last = [op |-> "none"]

SpecSync == InitSync /\ [][NextSync]_vars

\* the batch controller when page requests and store statements fail
NextFaults ==
  \/ FaultySync
  \/ DeliverChained
  \/ LoseChained
  \/ ReconcileAnonymous

SpecFaults == InitFaults /\ [][NextFaults]_vars

\* ============================================================ the texts
\* A string is the sequence of its characters, each a one-character
\* string; Nothing is null and Just(s) a string value.
Just(s) == [some |-> TRUE, s |-> s]
Nothing == [some |-> FALSE, s |-> <<>>]
\* a || b on strings that may be null
OrElse(a, b) == IF a.some /\ a.s # <<>> THEN a ELSE b

\* program constants of splitMessage
Line1Max == 120
Line2Max == 180

\* bound: lines in a composed message
MaxLines == 2

\* U+2026, one character
Ellipsis == "ellipsis"
Memory == <<"M", "e", "m", "o", "r", "y">>

IsSpace(c) == c \in {" ", "\t", "\n", "\r"}
IsLineTerminator(c) == c \in {"\n", "\r"}

Least(S) == CHOOSE i \in S : \A j \in S : i <= j
Greatest(S) == CHOOSE i \in S : \A j \in S : j <= i

\* String.prototype.trim
trim(s) ==
  LET inked == { i \in 1..Len(s) : ~IsSpace(s[i]) }
  IN IF inked = {} THEN <<>> ELSE SubSeq(s, Least(inked), Greatest(inked))

\* split(/\r?\n/)
RECURSIVE SplitLines(_)
SplitLines(s) ==
  LET feeds == { i \in 1..Len(s) : s[i] = "\n" }
  IN IF feeds = {} THEN <<s>>
     ELSE LET i == Least(feeds)
              stop == IF i > 1 /\ s[i - 1] = "\r" THEN i - 2 ELSE i - 1
          IN <<SubSeq(s, 1, stop)>> \o SplitLines(SubSeq(s, i + 1, Len(s)))

\* Array.prototype.join
RECURSIVE Join(_, _)
Join(parts, sep) ==
  IF Len(parts) = 0 THEN <<>>
  ELSE IF Len(parts) = 1 THEN parts[1]
  ELSE parts[1] \o sep \o Join(Tail(parts), sep)

\* variant: the cut keeps max characters before the ellipsis
truncateLate(value, max) ==
  IF Len(value) <= max THEN value
  ELSE SubSeq(value, 1, max) \o <<Ellipsis>>

truncate(value, max) ==
  IF Len(value) <= max THEN value
  ELSE SubSeq(value, 1, max - 1) \o <<Ellipsis>>

\* variant: no headline to fall back on
splitMessageNoFallback(message) ==
  IF message = <<>> THEN [line1 |-> <<>>, line2 |-> Nothing]
  ELSE LET parts == SplitLines(trim(message))
           first == trim(parts[1])
           rest == trim(Join(Tail(parts), <<" ">>))
       IN [line1 |-> truncate(first, Line1Max),
           line2 |-> IF rest = <<>> THEN Nothing ELSE Just(truncate(rest, Line2Max))]

\* variant: the first line as it stands, untrimmed
splitMessageUntrimmed(message) ==
  IF message = <<>> THEN [line1 |-> Memory, line2 |-> Nothing]
  ELSE LET parts == SplitLines(message)
           rest == trim(Join(Tail(parts), <<" ">>))
       IN [line1 |-> truncate(IF parts[1] = <<>> THEN Memory ELSE parts[1], Line1Max),
           line2 |-> IF rest = <<>> THEN Nothing ELSE Just(truncate(rest, Line2Max))]

splitMessage(message) ==
  IF message = <<>> THEN [line1 |-> Memory, line2 |-> Nothing]
  ELSE LET parts == SplitLines(trim(message))
           first == trim(parts[1])
           rest == trim(Join(Tail(parts), <<" ">>))
       IN [line1 |-> truncate(IF first = <<>> THEN Memory ELSE first, Line1Max),
           line2 |-> IF rest = <<>> THEN Nothing ELSE Just(truncate(rest, Line2Max))]

\* the /i flag, on the letters of the labels
UpperCase == <<"A", "B", "C", "D", "E", "F", "G", "H", "I", "J", "K", "L", "M", "N", "O", "P", "Q", "R", "S", "T", "U", "V", "W", "X", "Y", "Z">>
LowerCase == <<"a", "b", "c", "d", "e", "f", "g", "h", "i", "j", "k", "l", "m", "n", "o", "p", "q", "r", "s", "t", "u", "v", "w", "x", "y", "z">>
Lower(c) ==
  IF \E i \in 1..Len(UpperCase) : UpperCase[i] = c
    THEN LowerCase[CHOOSE i \in 1..Len(UpperCase) : UpperCase[i] = c]
    ELSE c

\* the label words of the four patterns
NameLabel == <<<<"l", "i", "f", "e">>, <<"e", "v", "e", "n", "t">>, <<"n", "a", "m", "e">>>>
DateLabel == <<<<"d", "a", "t", "e">>>>
TypeLabel == <<<<"t", "y", "p", "e">>>>
PostLabel == <<<<"p", "o", "s", "t">>>>

WordAt(s, i, w) ==
  /\ i + Len(w) - 1 <= Len(s)
  /\ \A k \in 1..Len(w) : Lower(s[i + k - 1]) = w[k]

\* \s* from i: the index of the first character that is not white space
SkipSpaces(s, i) ==
  LET stops == { j \in i..Len(s) : ~IsSpace(s[j]) }
  IN IF stops = {} THEN Len(s) + 1 ELSE Least(stops)

\* the words from the n-th on, each followed by \s*, matched from i: the
\* index after them, 0 when they do not match
RECURSIVE WordsEnd(_, _, _, _)
WordsEnd(s, i, words, n) ==
  IF n > Len(words) THEN i
  ELSE IF WordAt(s, i, words[n])
    THEN WordsEnd(s, SkipSpaces(s, i + Len(words[n])), words, n + 1)
  ELSE 0

\* label\s*[:\-] matched at i: the index after the separator, 0 when the
\* label does not match there; sepAt is where the words and \s* ended
AfterSeparator(s, sepAt) ==
  IF sepAt # 0 /\ sepAt <= Len(s) /\ s[sepAt] \in {":", "-"} THEN sepAt + 1 ELSE 0

\* the end of the run of characters `.` matches from k on
LineEnd(s, k) ==
  LET ends == { j \in k..Len(s) : IsLineTerminator(s[j]) }
  IN IF ends = {} THEN Len(s) ELSE Least(ends) - 1

\* \s*(.+) from `from` (0: the label did not match): \s* takes all the
\* white space and the capture runs to the end of the line; when only
\* white space follows, \s* gives back up to the last character `.`
\* matches and the capture is that character
DotCapture(s, from, k) ==
  IF from = 0 THEN Nothing
  ELSE IF k <= Len(s) THEN Just(SubSeq(s, k, LineEnd(s, k)))
  ELSE LET blanks == { j \in from..Len(s) : ~IsLineTerminator(s[j]) }
       IN IF blanks = {} THEN Nothing ELSE Just(<<s[Greatest(blanks)]>>)

\* \s*([\s\S]+) from `from`: the capture runs to the end of the text
AnyCapture(s, from, k) ==
  IF from = 0 THEN Nothing
  ELSE IF k <= Len(s) THEN Just(SubSeq(s, k, Len(s)))
  ELSE IF from <= Len(s) THEN Just(<<s[Len(s)]>>)
  ELSE Nothing

CaptureFrom(s, from, rest) ==
  IF rest THEN AnyCapture(s, from, SkipSpaces(s, from))
  ELSE DotCapture(s, from, SkipSpaces(s, from))

CaptureAt(s, i, words, rest) ==
  CaptureFrom(s, AfterSeparator(s, WordsEnd(s, i, words, 1)), rest)

\* String.prototype.match without /g: capture group 1 of the leftmost
\* match; rest tells [\s\S]+ from .+
Match(s, words, rest) ==
  LET hits == { i \in 1..Len(s) : CaptureAt(s, i, words, rest).some }
  IN IF hits = {} THEN Nothing ELSE CaptureAt(s, Least(hits), words, rest)

\* ?.trim()
TrimOf(m) == IF m.some THEN Just(trim(m.s)) ELSE Nothing

\* String.prototype.includes
Includes(s, t) ==
  \E i \in 1..(Len(s) + 1) :
    i + Len(t) - 1 <= Len(s) /\ SubSeq(s, i, i + Len(t) - 1) = t

LocationLine == <<"\n", "\n", "L", "o", "c", "a", "t", "i", "o", "n", ":", " ">>

WithPlace(description, placeName) ==
  IF /\ placeName.some /\ placeName.s # <<>>
     /\ description.some /\ description.s # <<>>
     /\ ~Includes(description.s, placeName.s)
    THEN Just(description.s \o LocationLine \o placeName.s)
    ELSE description

Described(postMatch, normalized, attachmentText) ==
  IF postMatch.some THEN Just(trim(postMatch.s))
  ELSE IF normalized # <<>> THEN Just(trim(normalized))
  ELSE IF attachmentText.some /\ attachmentText.s # <<>> THEN attachmentText
  ELSE Nothing

\* parseStructuredMessage: message and fallbackDate are strings,
\* attachmentText what extractAttachmentText returns, mainTitle and
\* mainType the primary attachment's title and type
parseStructuredMessage(message, fallbackDate, attachmentText, mainTitle, mainType, placeName) ==
  [title |-> OrElse(TrimOf(Match(message, NameLabel, FALSE)),
                    OrElse(TrimOf(mainTitle), Nothing)),
   eventDate |-> OrElse(Just(trim(OrElse(TrimOf(Match(message, DateLabel, FALSE)),
                                          Just(fallbackDate)).s)),
                        Nothing),
   eventType |-> OrElse(TrimOf(Match(message, TypeLabel, FALSE)),
                        OrElse(mainType, Nothing)),
   description |-> WithPlace(Described(Match(message, PostLabel, TRUE), message,
                                       attachmentText),
                             placeName)]

\* what a post says: message, created_time, story, the attachment text,
\* the primary attachment's title and type, the place name
Said(message, created, story, attachmentText, mainTitle, mainType, placeName) ==
  [message |-> message, created |-> created, story |-> story,
   attachmentText |-> attachmentText, mainTitle |-> mainTitle,
   mainType |-> mainType, placeName |-> placeName]

FullText(structured, rawMessage, said) ==
  OrElse(structured.description,
         OrElse(Just(rawMessage),
                OrElse(said.attachmentText, Just(trim(said.story))))).s

Lined(structured, split, fullText) ==
  [event_name_line_1 |-> OrElse(structured.title, Just(split.line1)).s,
   event_name_line_2 |-> split.line2,
   event_description |-> OrElse(Just(fullText), Nothing),
   event_date |-> structured.eventDate]

LinedFrom(structured, fullText) == Lined(structured, splitMessage(fullText), fullText)

Structured(rawMessage, said) ==
  LinedFrom(parseStructuredMessage(rawMessage, said.created, said.attachmentText,
                                   said.mainTitle, said.mainType, said.placeName),
            FullText(parseStructuredMessage(rawMessage, said.created, said.attachmentText,
                                            said.mainTitle, said.mainType, said.placeName),
                     rawMessage, said))

\* the text columns upsertFacebookPost binds for a post
EventText(said) == Structured(trim(said.message), said)

\* ------------------------------------------------------- texts to read
NameLine == <<"N", "a", "m", "e", ":", " ", "G", "r", "a", "d", "u", "a", "t", "i", "o", "n">>
DateLine == <<"D", "a", "t", "e", ":", " ", "2", "0", "2", "0", "-", "0", "5", "-", "0", "1">>
PostLine == <<"P", "o", "s", "t", ":", " ", "P", "r", "o", "u", "d", " ", "m", "o", "m", "e", "n", "t">>
LifeEventNameLine == <<"L", "i", "f", "e", " ", "E", "v", "e", "n", "t", " ", "N", "a", "m", "e", ":", " ", "G", "r", "a", "d", "u", "a", "t", "i", "o", "n">>
Hello == <<"H", "e", "l", "l", "o">>
WorldExtraText == <<"w", "o", "r", "l", "d", " ", "e", "x", "t", "r", "a", " ", "t", "e", "x", "t">>
Graduation == <<"G", "r", "a", "d", "u", "a", "t", "i", "o", "n">>
ExampleDate == <<"2", "0", "2", "0", "-", "0", "5", "-", "0", "1">>
ProudMoment == <<"P", "r", "o", "u", "d", " ", "m", "o", "m", "e", "n", "t">>
Created == <<"2", "0", "1", "9", "-", "0", "1", "-", "0", "1">>
Rome == <<"R", "o", "m", "e">>

\* n times the character c
Run(c, n) == [i \in 1..n |-> c]

Lines == {NameLine, DateLine, PostLine, LifeEventNameLine, Hello, WorldExtraText,
          <<>>, <<" ", "b", " ">>}

\* the messages of n lines, ended by LF or by CR LF
RECURSIVE Composed(_)
Composed(n) ==
  IF n = 1 THEN Lines
  ELSE { l \o sep \o m : l \in Lines, sep \in {<<"\n">>, <<"\r", "\n">>}, m \in Composed(n - 1) }

\* the example of the structured override
StructuredExample == NameLine \o <<"\n">> \o DateLine \o <<"\n">> \o PostLine

\* lines at and over the two limits
LongMessages ==
  { Run("a", Line1Max), Run("a", Line1Max + 1),
    Hello \o <<"\n">> \o Run("b", Line2Max),
    Hello \o <<"\n">> \o Run("b", Line2Max + 1),
    <<" ", "\n">> \o Run("a", Line1Max + 1) \o <<"\n", "\n">> \o Hello,
    Run("a", Line1Max + 10) }

\* bound: a maximum short enough to cut the composed messages
ShortMax == 5

\* the maxima truncate is read with
Maxima == {ShortMax, Line1Max, Line2Max}

Messages ==
  UNION { Composed(n) : n \in 1..MaxLines } \cup LongMessages \cup {StructuredExample}

\* posts: a message alone; a message with an attachment title, a place
\* and a story
Sayings ==
  { Said(m, Created, <<>>, Nothing, Nothing, Nothing, Nothing) : m \in Messages }
    \cup { Said(m, <<>>, Hello, Just(WorldExtraText), t, Just(Hello), Just(Rome)) :
             m \in {<<>>, Hello, StructuredExample},
             t \in {Just(Graduation), Just(Run("t", Line1Max + 1))} }

\* the three functions applied to a post's text
ReadSplit ==
  /\ last.op = "said"
  /\ last' = [op |-> "split", said |-> last.said,
              result |-> splitMessage(last.said.message)]
  /\ UNCHANGED <<events, photos, bucket, seqEvents, seqPhotos, seqKeys, upstream>>

ReadParsed ==
  /\ last.op = "said"
  /\ last' = [op |-> "parsed", said |-> last.said,
              result |-> parseStructuredMessage(last.said.message, last.said.created,
                                                last.said.attachmentText,
                                                last.said.mainTitle, last.said.mainType,
                                                last.said.placeName)]
  /\ UNCHANGED <<events, photos, bucket, seqEvents, seqPhotos, seqKeys, upstream>>

ReadEventText ==
  /\ last.op = "said"
  /\ last' = [op |-> "text", said |-> last.said, result |-> EventText(last.said)]
  /\ UNCHANGED <<events, photos, bucket, seqEvents, seqPhotos, seqKeys, upstream>>

ReadTruncated ==
  /\ last.op = "said"
  /\ \E max \in Maxima :
       last' = [op |-> "truncated", said |-> last.said, max |-> max,
                result |-> truncate(last.said.message, max)]
  /\ UNCHANGED <<events, photos, bucket, seqEvents, seqPhotos, seqKeys, upstream>>

InitText ==
  /\ events = {}
  /\ photos = {}
  /\ bucket = {}
  /\ seqEvents = 0
  /\ seqPhotos = 0
  /\ seqKeys = 0
  /\ feed = <<>>
  /\ tail = TRUE
  /\ secret = TRUE
  /\ inflight = <<>>
  /\ running = NoneRunning
  /\ last \in { [op |-> "said", said |-> x] : x \in Sayings }

\* the text of a post under the headline split, the structured parse and
\* the reconciliation's composition of the two
NextText == ReadSplit \/ ReadParsed \/ ReadEventText \/ ReadTruncated

SpecText == InitText /\ [][NextText]_vars

\* ------------------------------------------------ the names of the rows
\* posts that pass the batch filter and yield no text: a story of one
\* space, a message of white space
BareSayings ==
  { Said(<<>>, Created, <<" ">>, Nothing, Nothing, Nothing, Nothing),
    Said(<<" ", "\n">>, Created, <<>>, Nothing, Nothing, Nothing, Nothing) }

\* the post has no message text, no attachment text, no attachment title
\* and no story text
YieldsNoText(said) ==
  /\ trim(said.message) = <<>>
  /\ trim(said.story) = <<>>
  /\ ~said.attachmentText.some
  /\ ~said.mainTitle.some

\* "if (!post.message && !post.story) continue"
PassesFilter(said) == said.message # <<>> \/ said.story # <<>>

\* event_name_line_1 of a request body: absent, empty, white space, a word
BodyNames == { Nothing, Just(<<>>), Just(<<" ">>), Just(Hello) }

\* !body.event_name_line_1 is false
Truthy(name) == name.some /\ name.s # <<>>

\* what the statement binds as event_name_line_1 for each post that
\* passes the filter, next to whether the post yields text
BoundNames ==
  { [bare |-> YieldsNoText(said), line1 |-> EventText(said).event_name_line_1] :
      said \in { x \in Sayings \cup BareSayings : PassesFilter(x) } }

\* a post reconciled
ReconcileSaid ==
  \E bound \in BoundNames :
    \E scan \in Scans(Db) :
      LET r == upsertFacebookPost(Db, Post(1, TRUE, "t1", <<>>, NoUrl), <<>>, scan)
      IN /\ WithinBounds(r.db)
         /\ Install(r.db)
         /\ UNCHANGED upstream
         /\ last' = [op |-> "named", bare |-> bound.bare,
                     eventId |-> r.eventId, line1 |-> bound.line1]

\* POST /api/events with a name and an origin of the caller's choice
CreateNamed ==
  \E name \in BodyNames, org \in {"facebook", "webflow", "absent", "manual"} :
    LET r == createEvent(Db, Body(Truthy(name), Null, "null", org, 0, <<>>), <<>>)
    IN /\ WithinBounds(r.db)
       /\ Install(r.db)
       /\ UNCHANGED upstream
       /\ last' = [op |-> "create", status |-> r.status, id |-> r.id,
                   name |-> name, origin |-> org]

NextNames == ReconcileSaid \/ CreateNamed

SpecNames == Init /\ [][NextNames]_vars

\* ------------------------------------------------ the multi-page fetch
\* (src/timeline-events-db/src/worker.ts)
PagedDefaultLimit == 25
PagedMaxLimit == 100
PagedMaxTotal == 500
PagedDefaultPages == 10
PagedMaxPages == 40

\* length of the paged feed
PagedFeedLen == 4
\* largest limit, maxTotal and maxPages option
MaxOption == 3

\* opts of one call: 0 stands for an absent number or cursor
PagedOpts(lim, mx, cur, pgs) ==
  [limit |-> lim, maxTotal |-> mx, cursor |-> cur, maxPages |-> pgs]

PagedLimit(opts) ==
  IF opts.limit # 0 /\ opts.limit > 0 THEN Min2(opts.limit, PagedMaxLimit)
  ELSE PagedDefaultLimit

PagedTotal(opts) ==
  IF opts.maxTotal # 0 /\ opts.maxTotal > 0 THEN Min2(opts.maxTotal, PagedMaxTotal)
  ELSE PagedLimit(opts)

PagedPages(opts) ==
  IF opts.maxPages # 0 /\ opts.maxPages > 0 THEN Min2(opts.maxPages, PagedMaxPages)
  ELSE PagedDefaultPages

\* one answer of the Graph API: at most `limit` posts after the cursor;
\* the last page comes with or without an `after` cursor (tl), a page
\* past the end with no data and no cursor
GraphPage(fd, tl, limit, after) ==
  LET hi == Min2(after + limit, Len(fd))
      data == IF after >= Len(fd) THEN <<>> ELSE SubSeq(fd, after + 1, hi)
  IN [data |-> data,
      after |-> IF data = <<>> \/ (hi = Len(fd) /\ ~tl) THEN 0 ELSE hi]

\* the while loop of fetchFacebookFeed, from one test of its condition on
RECURSIVE FeedLoop(_, _, _, _, _, _, _, _, _)
FeedLoop(fd, tl, limit, maxTotal, maxPages, after, results, pageCount, nextCursor) ==
  IF ~(Len(results) < maxTotal /\ pageCount < maxPages)
    THEN [results |-> results, nextCursor |-> nextCursor, pages |-> pageCount]
  ELSE LET json == GraphPage(fd, tl, limit, after)
           pushed == results \o json.data
       IN IF json.after = 0 \/ json.data = <<>>
            THEN [results |-> pushed, nextCursor |-> nextCursor, pages |-> pageCount]
          ELSE FeedLoop(fd, tl, limit, maxTotal, maxPages, json.after, pushed,
                        pageCount + 1, json.after)

\* results.slice(0, maxTotal)
SliceTo(results, maxTotal) == SubSeq(results, 1, Min2(Len(results), maxTotal))

pagedFetchFacebookFeed(fd, tl, opts) ==
  LET maxTotal == PagedTotal(opts)
      r == FeedLoop(fd, tl, PagedLimit(opts), maxTotal, PagedPages(opts),
                    opts.cursor, <<>>, 0, 0)
  IN [posts |-> SliceTo(r.results, maxTotal), nextCursor |-> r.nextCursor,
      pages |-> r.pages]

\* a call from the start of the feed or from any cursor
FetchPaged ==
  \E lim \in 0..MaxOption, mx \in 0..MaxOption, pgs \in 0..MaxOption,
     cur \in 0..Len(feed) :
    LET opts == PagedOpts(lim, mx, cur, pgs)
        r == pagedFetchFacebookFeed(feed, tail, opts)
    IN /\ last' = [op |-> "paged", opts |-> opts, posts |-> r.posts,
                   nextCursor |-> r.nextCursor, pages |-> r.pages, resumed |-> FALSE]
       /\ UNCHANGED <<events, photos, bucket, seqEvents, seqPhotos, seqKeys, upstream>>

\* the caller comes back with the cursor it was handed
ResumePaged ==
  /\ last.op = "paged"
  /\ last.nextCursor # 0
  /\ LET opts == [last.opts EXCEPT !.cursor = last.nextCursor]
         r == pagedFetchFacebookFeed(feed, tail, opts)
     IN last' = [op |-> "paged", opts |-> opts, posts |-> r.posts,
                 nextCursor |-> r.nextCursor, pages |-> r.pages, resumed |-> TRUE]
  /\ UNCHANGED <<events, photos, bucket, seqEvents, seqPhotos, seqKeys, upstream>>

InitPaged ==
  /\ events = {}
  /\ photos = {}
  /\ bucket = {}
  /\ seqEvents = 0
  /\ seqPhotos = 0
  /\ seqKeys = 0
  /\ feed \in { [i \in 1..n |-> Qualifying(i)] : n \in 0..PagedFeedLen }
  /\ tail \in BOOLEAN
  /\ secret = TRUE
  /\ inflight = <<>>
  /\ running = NoneRunning
  /\ last = [op |-> "none"]

NextPaged == FetchPaged \/ ResumePaged

SpecPaged == InitPaged /\ [][NextPaged]_vars

\* ------------------------------------------- overlapping reconciliations
\* sightings of post 1 two invocations may hold at the same time
RaceSightings ==
  { Post(1, TRUE, "t1", us, NoUrl) : us \in {<<UrlAq>>, <<UrlA, UrlB>>} }

\* what the store statements of a reconciliation under way leave behind
Stepped(db, w, next) ==
  /\ WithinBounds(db)
  /\ Install(db)
  /\ running' = [running EXCEPT ![w] = next]
  /\ UNCHANGED <<feed, tail, secret, inflight>>
  /\ last' = [op |-> "step"]

\* an invocation enters upsertFacebookPost with a sighting whose
\* downloads will succeed
BeginReconcile ==
  \E w \in Workers, post \in RaceSightings :
    \E dl \in [SeqRange(PhotoUrlsOf(post)) -> {"ok"}] :
      /\ running[w].pc = "idle"
      /\ Stepped(Db, w, [pc |-> "lookup", post |-> post, dl |-> dl])

\* SELECT id FROM events WHERE external_id = ? AND origin = 'facebook',
\* first(): any of the rows
LookupEvent ==
  \E w \in Workers :
    /\ running[w].pc = "lookup"
    /\ LET existing == ExistingEvents(events, running[w].post.id)
       IN IF existing = {}
            THEN Stepped(Db, w, [pc |-> "write", post |-> running[w].post,
                                 dl |-> running[w].dl, found |-> FALSE, eventId |-> Null])
            ELSE \E e \in existing :
                   Stepped(Db, w, [pc |-> "write", post |-> running[w].post,
                                   dl |-> running[w].dl, found |-> TRUE, eventId |-> e.id])

\* the UPDATE, or the INSERT and its last_row_id
WriteRow ==
  \E w \in Workers :
    /\ running[w].pc = "write"
    /\ LET r == running[w]
           eventId == IF r.found THEN r.eventId ELSE seqEvents + 1
       IN Stepped(WriteEvent(Db, r.post, r.found, eventId), w,
                  [pc |-> "photos", post |-> r.post, dl |-> r.dl, eventId |-> eventId])

\* SELECT * FROM event_photos WHERE event_id = ?, and the Map built of it
ReadPhotos ==
  \E w \in Workers :
    /\ running[w].pc = "photos"
    /\ \E pref \in SUBSET DupPhotoIds(photos) :
         LET r == running[w]
             existingPhotos == { p \in photos : p.event_id = r.eventId }
         IN Stepped(Db, w,
                    [pc |-> "url", post |-> r.post, dl |-> r.dl, eventId |-> r.eventId,
                     existingPhotos |-> existingPhotos,
                     bySource |-> ExistingBySource(existingPhotos, pref),
                     i |-> 1])

\* one pass of the loop over photoUrls
PhotoStep ==
  \E w \in Workers :
    /\ running[w].pc = "url"
    /\ running[w].i <= Len(PhotoUrlsOf(running[w].post))
    /\ LET r == running[w]
       IN Stepped(PhotoLoop(Db, r.eventId, <<PhotoUrlsOf(r.post)[r.i]>>, 1, r.i - 1,
                            r.bySource, r.dl),
                  w, [r EXCEPT !.i = @ + 1])

\* the orphan sweep, and the return
SweepOrphans ==
  \E w \in Workers :
    /\ running[w].pc = "url"
    /\ running[w].i > Len(PhotoUrlsOf(running[w].post))
    /\ LET r == running[w]
       IN Stepped(RemoveOrphans(Db, r.existingPhotos,
                                { normalizeSourceUrl(u) : u \in SeqRange(PhotoUrlsOf(r.post)) }),
                  w, Idle)

\* a dedupe pass while no reconciliation is under way
DedupeAlone ==
  /\ running = NoneRunning
  /\ Dedupe

\* two invocations reconciling post 1 statement by statement, and dedupe
\* passes between their runs
NextRace ==
  \/ BeginReconcile
  \/ LookupEvent
  \/ WriteRow
  \/ ReadPhotos
  \/ PhotoStep
  \/ SweepOrphans
  \/ DedupeAlone

SpecRace == Init /\ [][NextRace]_vars

\* one reconciliation of post 1 at a time, statement by statement, while
\* manual inserts and dedupe passes run in other invocations at any moment
BeginReconcileAlone ==
  /\ running = NoneRunning
  /\ BeginReconcile

\* a manual insert under the identity of post 1
CreateTwin == CreateEventIn({Body(TRUE, 1, "facebook_post", "facebook", 0, <<>>)})

\* a dedupe pass whose bucket deletes all succeed
DedupeClean ==
  /\ Dedupe
  /\ last'.failKeys = {}

NextIntegrity ==
  \/ BeginReconcileAlone
  \/ LookupEvent
  \/ WriteRow
  \/ ReadPhotos
  \/ PhotoStep
  \/ SweepOrphans
  \/ DedupeClean
  \/ CreateTwin

SpecIntegrity == Init /\ [][NextIntegrity]_vars

\* ------------------------------------- a CMS push next to reconciliations
\* post 1 seen with one text and with another
EditedSightings == { Post(1, TRUE, b, <<>>, NoUrl) : b \in {"t1", "t2"} }

\* history: cms[id] is the content the CMS was last sent for event id
Sent(cms, e) ==
  [ i \in DOMAIN cms \cup {e.id} |-> IF i = e.id THEN e.content ELSE cms[i] ]

\* the invocation the push runs in
Pusher == CHOOSE w \in Workers : \A o \in Workers : w <= o

\* UPDATE events SET external_id = itemId || event.external_id,
\* external_source = 'webflow_item', sync = 0 WHERE id = event.id; event
\* is the row as the SELECT returned it
MarkSynced(db, event, outcome) ==
  [db EXCEPT !.events =
     { IF e.id = event.id
         THEN [e EXCEPT
                 !.external_id = IF outcome = "id" THEN ReturnedItemId(event)
                                 ELSE event.external_id,
                 !.external_source = "webflow_item",
                 !.sync = 0]
         ELSE e : e \in @ }]

\* SELECT * FROM events WHERE origin = 'facebook' AND sync = 1
PushSelect ==
  /\ running[Pusher].pc = "idle"
  /\ NeedsPush(events) # {}
  /\ running' = [running EXCEPT ![Pusher] = [pc |-> "push", rows |-> NeedsPush(events)]]
  /\ UNCHANGED <<events, photos, bucket, seqEvents, seqPhotos, seqKeys,
                 feed, tail, secret, inflight>>
  /\ last' = [op |-> "select", cms |-> last.cms]

\* one pass of the loop: the CMS call with the row as it was read, then
\* the UPDATE; a call that throws is logged
PushOne ==
  \E event \in (IF running[Pusher].pc = "push" THEN running[Pusher].rows ELSE {}) :
    \E outcome \in WebflowOutcomes :
      /\ Install(IF outcome = "fail" THEN Db ELSE MarkSynced(Db, event, outcome))
      /\ running' = [running EXCEPT ![Pusher].rows = @ \ {event}]
      /\ UNCHANGED <<feed, tail, secret, inflight>>
      /\ last' = [op |-> "pushed", outcome |-> outcome,
                  cms |-> IF outcome = "fail" THEN last.cms ELSE Sent(last.cms, event)]

\* the loop is over, the push returns
PushReturn ==
  /\ running[Pusher].pc = "push"
  /\ running[Pusher].rows = {}
  /\ running' = [running EXCEPT ![Pusher] = Idle]
  /\ UNCHANGED <<events, photos, bucket, seqEvents, seqPhotos, seqKeys,
                 feed, tail, secret, inflight>>
  /\ last' = [op |-> "returned", cms |-> last.cms]

\* a reconciliation of post 1 in another invocation, at any moment
ReconcileEdited ==
  \E post \in EditedSightings :
    \E scan \in Scans(Db) :
      LET r == upsertFacebookPost(Db, post, <<>>, scan)
      IN /\ WithinBounds(r.db)
         /\ Install(r.db)
         /\ UNCHANGED upstream
         /\ last' = [op |-> "upsert", eventId |-> r.eventId, cms |-> last.cms]

InitPushRace ==
  /\ events = {}
  /\ photos = {}
  /\ bucket = {}
  /\ seqEvents = 0
  /\ seqPhotos = 0
  /\ seqKeys = 0
  /\ feed = <<>>
  /\ tail = TRUE
  /\ secret = TRUE
  /\ inflight = <<>>
  /\ running = NoneRunning
  /\ last = [op |-> "none", cms |-> <<>>]

NextPushRace == PushSelect \/ PushOne \/ PushReturn \/ ReconcileEdited

SpecPushRace == InitPushRace /\ [][NextPushRace]_vars

\* ----------------------------------------------------- the page limit
\* bound: how far past the upstream maximum and below zero the limits go
Beyond == 3

\* limit parameters: absent, whole numbers and halves around the edges
LimitParams ==
  {AbsentNumber}
    \cup { Given(Whole(n)) : n \in (0 - Beyond)..(MaxLimit + Beyond) }
    \cup { Given(Ratio(n, 2)) :
             n \in { m \in (0 - Beyond)..(2 * (MaxLimit + Beyond)) : m % 2 = 1 } }

\* POST /api/sync/facebook?limit= up to the page request
ReadLimit ==
  /\ last.op = "asked"
  /\ last' = [op |-> "limit", param |-> last.param, sent |-> SentLimit(last.param)]
  /\ UNCHANGED <<events, photos, bucket, seqEvents, seqPhotos, seqKeys, upstream>>

InitLimit ==
  /\ events = {}
  /\ photos = {}
  /\ bucket = {}
  /\ seqEvents = 0
  /\ seqPhotos = 0
  /\ seqKeys = 0
  /\ feed = <<>>
  /\ tail = TRUE
  /\ secret = TRUE
  /\ inflight = <<>>
  /\ running = NoneRunning
  /\ last \in { [op |-> "asked", param |-> x] : x \in LimitParams }

\* the page limit for every limit parameter
NextLimit == ReadLimit

SpecLimit == InitLimit /\ [][NextLimit]_vars

\* ======================================================================
\* Properties
\* ======================================================================

PhotosOf(phs, eventId) == { p \in phs : p.event_id = eventId }
Norms(phs) == { normalizeSourceUrl(p.original_source_url) : p \in phs }

\* C1 -- Idempotency.  A sighting of a post that has no event yet reports
\* inserted; the same sighting reconciled again straight away (all
\* downloads succeeding in both calls) reports updated and not inserted,
\* and leaves the number of event rows and of photo rows as they were.
C1_Idempotent ==
  [][ /\ ( /\ last'.op = "upsert"
           /\ last'.post.id # Null
           /\ ExistingEvents(events, last'.post.id) = {} )
         => ( last'.inserted /\ ~last'.updated )
      /\ ( /\ last'.op = "upsert"
           /\ last'.repeat
           /\ last'.allOk )
         => ( /\ last'.updated
              /\ ~last'.inserted
              /\ Cardinality(events') = Cardinality(events)
              /\ Cardinality(photos') = Cardinality(photos) )
    ]_vars

\* the second of two identical calls has run, on a post with photos
C1_Witness ==
  /\ last.op = "upsert"
  /\ last.repeat
  /\ last.allOk
  /\ last.updated
  /\ Cardinality(PhotosOf(photos, last.eventId)) >= 2

\* C2 -- An event is created only on the first sighting of an upstream
\* post: whatever batch runs, CMS pushes and dedupe passes came before, the
\* store never holds two event rows that were inserted for the same
\* upstream post id.
C2_OneEventPerPost ==
  \A p \in PostIds :
    Cardinality({ e \in events : e.first_seen = p }) <= 1

\* C3 -- Orphan cleanup.  The event has photos for {A, B}; the post now
\* yields <<B, C>>.  After the reconcile A's row and A's blob are gone, B's
\* row is kept with position 0, and a new row for C exists at position 1.
C3_OrphanCleanup ==
  [][ ( /\ last'.op = "upsert"
        /\ last'.allOk
        /\ PhotoUrlsOf(last'.post) = <<UrlB, UrlC>>
        /\ Cardinality(PhotosOf(photos, last'.eventId)) = 2
        /\ Norms(PhotosOf(photos, last'.eventId)) = {UrlA, UrlB} )
      => LET old == PhotosOf(photos, last'.eventId)
             new == PhotosOf(photos', last'.eventId)
             rowA == CHOOSE p \in old : normalizeSourceUrl(p.original_source_url) = UrlA
             rowB == CHOOSE p \in old : normalizeSourceUrl(p.original_source_url) = UrlB
         IN /\ \A p \in new : p.id # rowA.id
            /\ UrlA \notin Norms(new)
            /\ rowA.storage_key \notin bucket'
            /\ \E p \in new : /\ p.id = rowB.id
                               /\ p.position = 0
                               /\ p.storage_key = rowB.storage_key
            /\ rowB.storage_key \in bucket'
            /\ \E p \in new : /\ normalizeSourceUrl(p.original_source_url) = UrlC
                               /\ p.id \notin { o.id : o \in old }
                               /\ p.position = 1
                               /\ p.storage_key \in bucket'
            /\ Cardinality(new) = 2
    ]_vars

\* C4 -- Photo dedup.  After a reconcile whose downloads all succeeded the
\* event holds at most one photo row per normalized source URL, and for
\* the list <<A, B, A>> the row of A sits at position 0.
C4_PhotoDedup ==
  ( /\ last.op = "upsert"
    /\ last.processed
    /\ last.allOk )
  => LET rows == PhotosOf(photos, last.eventId)
     IN /\ \A p, q \in rows :
             normalizeSourceUrl(p.original_source_url) = normalizeSourceUrl(q.original_source_url)
               => p.id = q.id
        /\ PhotoUrlsOf(last.post) = <<UrlA, UrlB, UrlA>>
             => \E p \in rows : /\ normalizeSourceUrl(p.original_source_url) = UrlA
                                  /\ p.position = 0

\* C5 -- A chain of bounded invocations that began at the first page with
\* chaining requested covers the feed: when an invocation of the chain
\* schedules no follow-up, every qualifying post of the feed has been
\* reconciled by some invocation of the chain.  (Stated for a feed whose
\* every page carries a cursor and for chains that end short of the page
\* ceiling.)
C5_ChainCoversFeed ==
  ( /\ last.op = "batch"
    /\ last.ran
    /\ last.fromStart
    /\ tail
    /\ last.stop # "ceiling"
    /\ last.scheduled = 0 )
  => QualifyingIds(feed) \subseteq last.done

\* a chain of two invocations has covered the whole feed
C5_ChainCompleted ==
  /\ last.op = "batch"
  /\ last.via = "followup"
  /\ last.fromStart
  /\ last.scheduled = 0
  /\ QualifyingIds(feed) \subseteq last.done

\* C6 -- A chained follow-up carries the cursor its scheduling invocation
\* saved and the token the chain's first request presented, and what
\* answers it is a batch of this worker that starts fetching at that
\* cursor, whichever trigger started the chain.
C6_FollowUpResumes ==
  ( /\ last.op \in {"batch", "sent"}
    /\ last.via = "followup" )
  => /\ last.link.url.cursor = last.link.saved
     /\ PresentedToken(last.link.url) = last.link.cred
     /\ last.op = "batch"
     /\ last.ran
     /\ last.startCursor = last.link.saved

\* the follow-up of an on-demand chain has been answered by a batch
\* starting at the saved cursor
C6_OnDemandResumes ==
  /\ last.op = "batch"
  /\ last.via = "followup"
  /\ last.trigger = "sync"
  /\ last.ran
  /\ last.startCursor = last.link.saved
  /\ last.link.saved # 0

\* C7 -- A batch invocation schedules a follow-up exactly when chaining
\* was requested and hasMore is true, never more than one, and when it
\* returns its summary the follow-up is still in flight.
C7_ChainIffHasMore ==
  [][ ( last'.op = "batch" /\ last'.ran )
      => /\ (last'.scheduled = 1) <=> (last'.shouldChain /\ last'.hasMore)
         /\ last'.scheduled <= 1
         /\ Len(inflight') =
              Len(inflight) - (IF last'.via = "followup" THEN 1 ELSE 0) + last'.scheduled
         /\ last'.scheduled = 1
              => /\ inflight'[Len(inflight')].url.cursor = last'.nextCursor
                 /\ inflight'[Len(inflight')].url.chain
    ]_vars

\* a batch has returned hasMore with its one follow-up in flight
C7_Witness ==
  /\ last.op = "batch"
  /\ last.ran
  /\ last.shouldChain
  /\ last.hasMore
  /\ last.scheduled = 1
  /\ Len(inflight) = 1
  /\ inflight[1].url.cursor = last.nextCursor

\* C8 -- hasMore of the summary is true only if the target was hit
\* (processed >= target) and the summary still carries a cursor; a batch
\* that stopped short of the target (feed exhausted, page ceiling) reports
\* hasMore false.
C8_HasMoreOnlyAtTarget ==
  ( last.op = "batch" /\ last.ran )
  => /\ last.hasMore => (last.processed >= last.target /\ last.nextCursor # 0)
     /\ last.processed < last.target => ~last.hasMore

\* a batch hit the page ceiling short of its target with a cursor in hand
C8_Witness ==
  /\ last.op = "batch"
  /\ last.ran
  /\ last.stop = "ceiling"
  /\ last.fetches = PageCeiling
  /\ last.processed < last.target
  /\ last.nextCursor # 0
  /\ ~last.hasMore

DupGroups(evs) ==
  { g \in { GroupOf(evs, e) : e \in Keyed(evs) } : Cardinality(g) >= 2 }
Ids(rows) == { r.id : r \in rows }
LowestId(rows) == CHOOSE i \in Ids(rows) : \A j \in Ids(rows) : i <= j

\* after a pass: no two rows share a non-NULL (external_source,
\* external_id), no two feed-origin rows share an external_id
NoDuplicateEvents(evs) ==
  /\ \A x, y \in Keyed(evs) :
       (x.external_source = y.external_source /\ x.external_id = y.external_id)
         => x.id = y.id
  /\ \A x, y \in { e \in evs : e.origin = "facebook" /\ e.external_id # Null } :
       x.external_id = y.external_id => x.id = y.id

\* C10 (as claimed) -- Janitor convergence.  A dedupe pass leaves of every
\* group of k >= 2 rows sharing a non-NULL (external_source, external_id)
\* exactly the row with the lowest id, reports the rows it deleted as
\* eventsRemoved, and leaves no duplicate behind.
C10_AsClaimed ==
  [][ last'.op = "dedupe"
      => /\ \A g \in DupGroups(events) :
              Ids(g) \cap Ids(events') = {LowestId(g)}
         /\ last'.eventsRemoved = Cardinality(events) - Cardinality(events')
         /\ NoDuplicateEvents(events')
    ]_vars

\* feed-origin rows outside the group g that carry g's external_id
Outsiders(evs, g) ==
  { e \in evs \ g : /\ e.origin = "facebook"
                    /\ \E x \in g : x.external_id = e.external_id }

\* C10 (amended) -- A dedupe pass leaves of every such group no row but
\* the one with the lowest id, and exactly that row when no feed-origin
\* row outside the group carries the group's external_id (k - 1 of its k
\* rows are then deleted); eventsRemoved is the number of event rows the
\* pass deleted; afterwards no two rows share a non-NULL
\* (external_source, external_id) and no two feed-origin rows share an
\* external_id.
C10_JanitorConvergence ==
  [][ last'.op = "dedupe"
      => /\ \A g \in DupGroups(events) :
              /\ Ids(g) \cap Ids(events') \subseteq {LowestId(g)}
              /\ Outsiders(events, g) = {}
                   => Ids(g) \cap Ids(events') = {LowestId(g)}
         /\ last'.eventsRemoved = Cardinality(events) - Cardinality(events')
         /\ NoDuplicateEvents(events')
    ]_vars

\* a pass has collapsed a group of three rows into its lowest id
C10_Witness ==
  /\ last.op = "dedupe"
  /\ last.largestGroup = 3
  /\ last.eventsRemoved = 2
  /\ Ids(events) = {1}

\* rows a CMS push has just sent: selected (sync = 1) before, marked
\* synced (sync = 0) after
PushedRows(before, after) ==
  { e \in before : e.sync = 1 /\ \E f \in after : f.id = e.id /\ f.sync = 0 }

\* C11 -- Only approved records are pushed to the CMS: every event a push
\* sends has origin 'facebook', sync = 1 and approved = 1.
C11_OnlyApprovedPushed ==
  [][ last'.op = "webflow"
      => \A e \in PushedRows(events, events') :
           e.origin = "facebook" /\ e.sync = 1 /\ e.approved = 1
    ]_vars

\* every object of the bucket is the storage_key of some photo row
NoLeak(bkt, phs) == \A k \in bkt : \E p \in phs : p.storage_key = k

\* C12 -- No storage leak.  A reconcile, or a dedupe pass in which no blob
\* deletion fails, that starts with every object of the bucket referenced
\* by a photo row ends with every object referenced by a photo row.
C12_NoStorageLeak ==
  [][ ( /\ \/ last'.op = "upsert"
           \/ (last'.op = "dedupe" /\ last'.failKeys = {})
        /\ NoLeak(bucket, photos) )
      => NoLeak(bucket', photos')
    ]_vars

\* the URL list names p's source URL no later than q's
InListOrder(urls, p, q) ==
  \E i, j \in 1..Len(urls) :
    /\ i <= j
    /\ normalizeSourceUrl(urls[i]) = normalizeSourceUrl(p.original_source_url)
    /\ normalizeSourceUrl(urls[j]) = normalizeSourceUrl(q.original_source_url)

\* C13 -- After a completed reconcile of a post the positions of the
\* event's photo rows are 0..n-1, n the number of its photo rows, each
\* once, and rows at increasing positions follow the order of the post's
\* URL list; downloads may have failed and URLs may repeat.
C13_DensePositions ==
  ( last.op = "upsert" /\ last.processed )
  => LET rows == PhotosOf(photos, last.eventId)
         urls == PhotoUrlsOf(last.post)
     IN /\ { p.position : p \in rows } = 0..(Cardinality(rows) - 1)
        /\ \A p, q \in rows : p.position < q.position => InListOrder(urls, p, q)


\* posts of the feed with text and without id
Anonymous(fd) == { j \in DOMAIN fd : fd[j].text /\ fd[j].id = Null }

\* C14 -- Reconciling a post that has no upstream identifier returns
\* processed, inserted and updated all false and leaves every Event row,
\* Photo row and blob as it was; a batch never counts such a post: its
\* counter is the number of identified posts it reconciled.
C14_NoIdNoEffect ==
  [][ /\ ( last'.op = "upsert" /\ last'.post.id = Null )
          => /\ ~last'.processed /\ ~last'.inserted /\ ~last'.updated
             /\ UNCHANGED <<events, photos, bucket, seqEvents, seqPhotos, seqKeys>>
      /\ ( last'.op = "batch" /\ last'.ran )
          => /\ Null \notin last'.seen
             /\ last'.counted = Cardinality(last'.seen)
             /\ \A e \in events' \ events : e.external_id # Null ]_vars

\* a batch met the post without id, skipped it and reached its target of
\* two with the posts around it
C14_Witness ==
  /\ last.op = "batch"
  /\ Anonymous(feed) # {}
  /\ last.skipped = 1
  /\ last.target = 2
  /\ last.counted = 2
  /\ last.seen = {1, 3}


\* the URLs of the call recorded in l that were handed to
\* persistPhotoFromUrl and did not end in a stored row
FailedUrls(l) == { u \in l.attempted : l.dl[u] # "ok" }

RowsOfUrl(phs, eventId, u) ==
  { p \in PhotosOf(phs, eventId) : p.original_source_url = u }

\* C15 -- When the download or the storing of a photo URL fails during a
\* reconcile, the event write stands and the call reports processed, no
\* Photo row exists for the failed URL, every other URL of the list has
\* its row, and the next reconcile of the same post hands the URL to the
\* download again: when that succeeds it is stored as a new Photo row.
C15_PhotoFailureIsolated ==
  [][ ( last'.op = "upsert" /\ last'.post.id # Null )
      => /\ FailedUrls(last') # {}
            => /\ last'.processed
               /\ \E e \in events' :
                    e.id = last'.eventId /\ e.content = ContentOf(last'.post) /\ e.sync = 1
               /\ \A u \in FailedUrls(last') :
                    RowsOfUrl(photos', last'.eventId, u) = {}
               /\ \A u \in DOMAIN last'.dl \ FailedUrls(last') :
                    normalizeSourceUrl(u) \in Norms(PhotosOf(photos', last'.eventId))
         /\ ( /\ last.op = "upsert"
              /\ last.post = last'.post
              /\ last.eventId = last'.eventId )
            => \A u \in FailedUrls(last) :
                 last'.dl[u] = "ok"
                 => \E p \in RowsOfUrl(photos', last'.eventId, u) : p.id > seqPhotos ]_vars

\* a list of two URLs was reconciled, the first failed and has no row,
\* the second is stored
C15_Witness ==
  /\ last.op = "upsert"
  /\ last.processed
  /\ last.post.urls = <<UrlA, UrlB>>
  /\ FailedUrls(last) = {UrlA}
  /\ last.dl[UrlB] = "ok"
  /\ RowsOfUrl(photos, last.eventId, UrlA) = {}
  /\ RowsOfUrl(photos, last.eventId, UrlB) # {}


\* the posts a store failure was set on
Unstorable(l) == l.faults.early \cup l.faults.late

\* the n lowest members of a set of numbers
FirstN(ids, n) == { i \in ids : Cardinality({ j \in ids : j <= i }) <= n }

\* the posts after the start cursor that can be reconciled, in the feeds
\* whose posts carry their index as id
Reconcilable(l) == { i \in QualifyingIds(feed) \ Unstorable(l) : i > l.startCursor }

\* C16 -- A store failure while one post is reconciled is fatal for that
\* post only: the batch does not count the post, does not end in an
\* error, and goes on with the posts after it: a batch that was not cut
\* short by a failed page request has reconciled the first posts up to
\* its target among those without a store failure.
C16_StoreFailureIsolated ==
  ( last.op = "batch" /\ last.ran )
  => /\ Unstorable(last) \cap last.seen = {}
     /\ last.counted = Cardinality(last.seen)
     /\ last.faults.feedAt = 0 => last.stop \in {"target", "exhausted", "empty"}
     /\ last.stop # "error" => last.seen = FirstN(Reconcilable(last), last.target)
     /\ last.stop # "error" => last.processed = last.counted

\* the second post failed at its first store statement; the batch went
\* on and reconciled the third
C16_Witness ==
  /\ last.op = "batch"
  /\ feed = SmallFeed
  /\ last.failed = {2}
  /\ last.faults.early = {2}
  /\ last.seen = {1, 3}
  /\ last.processed = 2
  /\ last.status = 200
  /\ \E e \in events : e.external_id = 3
  /\ \A e \in events : e.external_id # 2


\* the invocation recorded in l asked for the page that was set to fail
MetFailingPage(l) ==
  /\ l.op = "batch"
  /\ l.ran
  /\ l.faults.feedAt # 0
  /\ l.fetches >= l.faults.feedAt

\* C17 -- When a page request is answered with a non-success status, the
\* fetch fails with an error that carries the upstream status and body;
\* the batch ends there: it requests no further page, does not repeat the
\* request, schedules no follow-up and answers the on-demand route with
\* 500; every event reconciled earlier in the batch stays in the store.
C17_FeedFailureAborts ==
  [][ MetFailingPage(last')
      => /\ last'.stop = "error"
         /\ last'.error = [kind |-> "Facebook API error",
                           status |-> last'.faults.status,
                           text |-> last'.faults.body]
         /\ last'.fetches = last'.faults.feedAt
         /\ last'.scheduled = 0
         /\ inflight' = inflight
         /\ last'.status = 500
         /\ \A i \in last'.seen : \E e \in events' : e.external_id = i
         /\ \A e \in events : \E f \in events' : f.id = e.id
         /\ last'.counted = Cardinality(last'.seen) ]_vars

\* the second page request failed after the first page's two posts were
\* reconciled; their events are in the store
C17_Witness ==
  /\ MetFailingPage(last)
  /\ last.faults.feedAt = 2
  /\ last.error.status = 503
  /\ last.seen = {1, 2}
  /\ \A i \in {1, 2} : \E e \in events : e.external_id = i


\* C18 -- Every event written by a reconcile has a first headline line of
\* at most 120 characters and a second of at most 180, whatever the post
\* text and the attachment title.
C18_LineLengths ==
  last.op = "text"
  => /\ Len(last.result.event_name_line_1) <= Line1Max
     /\ last.result.event_name_line_2.some
        => Len(last.result.event_name_line_2.s) <= Line2Max

\* C19 -- The text of the lines Name: Graduation, Date: 2020-05-01 and
\* Post: Proud moment parses to the title Graduation, the event date
\* 2020-05-01 and the description Proud moment: the title is what follows
\* the Name: label, the date what follows Date:, the description what
\* follows Post:.
C19_StructuredOverride ==
  ( /\ last.op = "parsed"
    /\ last.said.message = StructuredExample
    /\ ~last.said.placeName.some )
  => /\ last.result.title = Just(Graduation)
     /\ last.result.eventDate = Just(ExampleDate)
     /\ last.result.description = Just(ProudMoment)

\* the lines of a text that are not blank
Inked(lines) == { k \in 1..Len(lines) : trim(lines[k]) # <<>> }

\* a text cut to max characters, the last of them the ellipsis
Shortened(t, max) ==
  IF Len(t) <= max THEN t ELSE [i \in 1..max |-> IF i < max THEN t[i] ELSE Ellipsis]

\* the headline and the rest of a text: the first line that is not blank,
\* trimmed, and the lines after it joined with one space each and trimmed
Headline(lines) == trim(lines[Least(Inked(lines))])
Remainder(lines) ==
  trim(Join(SubSeq(lines, Least(Inked(lines)) + 1, Len(lines)), <<" ">>))

\* C20 as stated -- line1 is the first non-empty line of the text,
\* trimmed, and Memory when the text is empty; line2 is the remaining
\* lines joined with single spaces and trimmed, null when that is empty.
C20_AsClaimed ==
  last.op = "split"
  => LET lines == SplitLines(last.said.message)
     IN IF Inked(lines) = {}
          THEN last.result = [line1 |-> Memory, line2 |-> Nothing]
          ELSE /\ last.result.line1 = Headline(lines)
               /\ last.result.line2 =
                    IF Remainder(lines) = <<>> THEN Nothing ELSE Just(Remainder(lines))

\* C20 -- line1 is the first line of the text that is not blank, trimmed
\* and cut to 120 characters (the last an ellipsis when cut), and Memory
\* when the text has no such line; line2 is the remaining lines joined
\* with single spaces, trimmed and cut to 180 characters in the same way,
\* null when that is empty.
C20_SplitMessage ==
  last.op = "split"
  => LET lines == SplitLines(last.said.message)
     IN IF Inked(lines) = {}
          THEN last.result = [line1 |-> Memory, line2 |-> Nothing]
          ELSE /\ last.result.line1 = Shortened(Headline(lines), Line1Max)
               /\ last.result.line2 =
                    IF Remainder(lines) = <<>> THEN Nothing
                    ELSE Just(Shortened(Remainder(lines), Line2Max))

\* the text Hello, newline, world extra text was split into its two lines
C20_Witness ==
  /\ last.op = "split"
  /\ last.said.message = Hello \o <<"\n">> \o WorldExtraText
  /\ last.result = [line1 |-> Hello, line2 |-> Just(WorldExtraText)]


\* C21 -- truncate returns a string of at most max characters unchanged,
\* and of a longer one the first max-1 characters followed by one
\* ellipsis, max characters in all.
C21_Truncation ==
  last.op = "truncated"
  => LET value == last.said.message
         max == last.max
     IN IF Len(value) <= max THEN last.result = value
        ELSE /\ Len(last.result) = max
             /\ \A i \in 1..(max - 1) : last.result[i] = value[i]
             /\ last.result[max] = Ellipsis

\* a line of 130 characters was cut to 119 and the ellipsis
C21_Witness ==
  /\ last.op = "truncated"
  /\ Len(last.said.message) = Line1Max + 10
  /\ last.max = Line1Max
  /\ Len(last.result) = Line1Max
  /\ last.result[Line1Max] = Ellipsis
  /\ last.result[Line1Max - 1] = "a"


\* C22 -- The page limit sent upstream is a whole number within 1..100:
\* a requested limit above 100 is sent as 100, an absent, zero or
\* negative one as the default 25.
C22_LimitClamped ==
  last.op = "limit"
  => /\ last.sent.den = 1
     /\ last.sent.num \in 1..MaxLimit
     /\ ( last.param.present /\ last.param.value.num > MaxLimit * last.param.value.den )
        => last.sent = Whole(MaxLimit)
     /\ ( ~last.param.present \/ last.param.value.num <= 0 )
        => last.sent = Whole(DefaultLimit)


\* C23 -- Overlapping reconciliations of one post may each insert an
\* Event row, or each a Photo row for the same URL; a dedupe pass run once
\* both have finished leaves exactly one Event row for the post and, in
\* it, at most one Photo row per normalized source URL.
C23_RaceRepaired ==
  [][ ( last'.op = "dedupe" /\ running = NoneRunning )
      => \A id \in PostIds :
           /\ ExistingEvents(events, id) # {}
              => Cardinality(ExistingEvents(events', id)) = 1
           /\ \A e \in ExistingEvents(events', id) :
                \A p, q \in PhotosOf(photos', e.id) :
                  normalizeSourceUrl(p.original_source_url)
                    = normalizeSourceUrl(q.original_source_url)
                  => p.id = q.id ]_vars

\* a dedupe pass found two Event rows of the post and removed one
C23_Witness ==
  /\ last.op = "dedupe"
  /\ running = NoneRunning
  /\ last.largestGroup = 2
  /\ last.eventsRemoved = 1
  /\ Cardinality(ExistingEvents(events, 1)) = 1


\* the rows the logical key (external_source, external_id) selects for a
\* post
BySourceAndId(evs, postId) ==
  { e \in evs : e.external_source = "facebook_post" /\ e.external_id = postId }

\* C24 -- In every reachable store state and for every post id, the rows
\* with external_source 'facebook_post' and that external_id are exactly
\* the rows the reconciliation looks up by external_id and origin
\* 'facebook'.
C24_LookupsAgree ==
  \A id \in PostIds : BySourceAndId(events, id) = ExistingEvents(events, id)

BlobBeforeRow(steps, p) ==
  \E i, j \in 1..Len(steps) :
    /\ i < j
    /\ steps[i].op = "blobs" /\ p.storage_key \in steps[i].keys
    /\ steps[j].op = "rows" /\ p.id \in steps[j].photos

RowsNamed(steps) ==
  UNION { steps[j].photos : j \in { k \in 1..Len(steps) : steps[k].op = "rows" } }

FailedBlobs(l) ==
  l.failKeys \cap
    UNION { l.steps[j].keys : j \in { k \in 1..Len(l.steps) : l.steps[k].op = "blobs" } }

\* C25 -- In every dedupe pass, each photo row that disappears (as a
\* duplicate photo or with its duplicate event) had the bucket delete of
\* its storage key issued before the DELETE that removed it; whichever
\* bucket deletes fail, every row a DELETE names is gone afterwards and
\* the pass returns the number of events and of duplicate photos removed.
C25_BlobBeforeRow ==
  [][ last'.op = "dedupe" =>
        /\ \A p \in photos \ photos' : BlobBeforeRow(last'.steps, p)
        /\ \A p \in photos' : p.id \notin RowsNamed(last'.steps)
        /\ last'.eventsRemoved = Cardinality(events \ events')
        /\ last'.photosRemoved =
             Cardinality({ p \in photos \ photos' :
                             p.event_id \in { e.id : e \in events' } })
    ]_vars

\* a pass removed a duplicate event together with a photo row whose bucket
\* delete failed: the blob is still stored, the row is gone
C25_Witness ==
  /\ last.op = "dedupe"
  /\ last.eventsRemoved >= 1
  /\ \E k \in FailedBlobs(last) :
       k \in bucket /\ ~\E p \in photos : p.storage_key = k

EventIds(evs) == { e.id : e \in evs }

\* C26 -- No step other than a dedupe pass removes an event row: after a
\* batch run (its reconciliations included), a manual insert or a CMS
\* push every event id that was stored is still stored.
C26_OnlyDedupeDeletes ==
  [][ last'.op # "dedupe" => EventIds(events) \subseteq EventIds(events') ]_vars

\* a batch run has updated a row a CMS push had marked before
C26_Witness ==
  /\ last.op = "batch"
  /\ last.updated >= 1
  /\ \E e \in events : e.external_source = "webflow_item" /\ e.sync = 1

\* the feed positions up to the end of the k-th page of the run l records
Covered(l, k) == l.startCursor + k * l.limit

QualifyingIn(fd, a, b) ==
  Cardinality({ i \in (a..b) \cap DOMAIN fd : fd[i].text /\ fd[i].id # Null })

\* the k-th page had posts, came with a next cursor, and the posts with
\* text up to its end were fewer than the target
WentOn(l, k) ==
  /\ Covered(l, k - 1) < Len(feed)
  /\ (Covered(l, k) < Len(feed) \/ tail)
  /\ QualifyingIn(feed, l.startCursor + 1, Covered(l, k)) < l.target

NoiseIds(fd) == { fd[i].id : i \in { j \in DOMAIN fd : ~fd[j].text } }

Least2(a, b) == IF a < b THEN a ELSE b

\* C28 -- Feed items with neither message nor story leave nothing behind
\* and are not counted: no event row carries the id of such an item, no
\* photo row or blob is stored (in these feeds only such items carry a
\* picture), and a batch run reports as processed the posts with text on
\* the pages it requested, up to its target, inserted and updated adding
\* up to processed.
C28_NoiseIgnored ==
  /\ \A e \in events : e.external_id \notin NoiseIds(feed)
  /\ photos = {} /\ bucket = {}
  /\ (last.op = "batch" /\ last.ran) =>
       /\ last.seen \cap NoiseIds(feed) = {}
       /\ last.processed =
            Least2(last.target,
                   QualifyingIn(feed, last.startCursor + 1, Covered(last, last.fetches)))
       /\ last.inserted + last.updated = last.processed

\* a run went through a page holding items without text and processed
\* the posts with text around them
C28_Witness ==
  /\ last.op = "batch" /\ last.ran
  /\ last.processed >= 1
  /\ \E i \in (last.startCursor + 1)..Covered(last, last.fetches - 1) :
       i \in DOMAIN feed /\ ~feed[i].text

RowOf(evs, id) == CHOOSE e \in evs : e.id = id

FailedPushes(l) == { id \in DOMAIN l.out : l.out[id] = "fail" }

\* C29 -- A reconciliation that inserts or updates leaves its event with
\* sync = 1.  A CMS push clears sync on exactly the selected rows whose
\* CMS call succeeded and counts them; a row whose call failed is left as
\* it was, sync = 1, and is selected again by the next push.
C29_NeedsPush ==
  [][ /\ (last'.op = "upsert" /\ last'.processed) =>
           RowOf(events', last'.eventId).sync = 1
      /\ last'.op = "webflow" =>
           /\ DOMAIN last'.out = EventIds(NeedsPush(events))
           /\ \A e \in events :
                IF e.id \in DOMAIN last'.out /\ last'.out[e.id] # "fail"
                  THEN RowOf(events', e.id).sync = 0
                  ELSE e \in events'
           /\ FailedPushes(last') \subseteq EventIds(NeedsPush(events'))
           /\ last'.eventsSynced = Cardinality(DOMAIN last'.out \ FailedPushes(last'))
    ]_vars

\* a push in which one CMS call failed and another succeeded
C29_Witness ==
  /\ last.op = "webflow"
  /\ last.eventsSynced >= 1
  /\ \E id \in FailedPushes(last) : RowOf(events, id).sync = 1

\* C30 -- An invocation that schedules a follow-up has run its batch to
\* the end, answers normally and reports the finished summary (processed at the target,
\* hasMore, the cursor the follow-up carries).  When the follow-up fetch
\* then fails, the step changes no row and no blob, and every post the
\* chain had reconciled still has its event.
C30_FollowUpFailureLogged ==
  [][ /\ (last'.op = "batch" /\ last'.scheduled >= 1) =>
           /\ last'.ran /\ last'.stop = "target"
           /\ last'.status = 200
           /\ last'.hasMore
           /\ last'.processed = last'.target
           /\ \A i \in 1..Len(inflight') :
                inflight'[i] \in SeqRange(inflight)
                  \/ inflight'[i].url.cursor = last'.nextCursor
      /\ last'.op = "lost" =>
           /\ UNCHANGED <<events, photos, bucket>>
           /\ \A id \in last'.link.done : \E e \in events' : e.first_seen = id
    ]_vars

\* the follow-up of a run that had reconciled posts was lost
C30_Witness ==
  /\ last.op = "lost"
  /\ last.link.done # {}
  /\ events # {}

\* C31 -- Every chain of follow-up requests ends: again and again no
\* chained request is in flight.
C31_ChainsEnd == []<>(inflight = <<>>)

\* the event's content is not what the CMS was last sent for it
Unpushed(cms, e) == e.id \notin DOMAIN cms \/ cms[e.id] # e.content

\* C32 -- Whenever no push is under way, every event of origin 'facebook'
\* whose content is newer than what the CMS was last sent has sync = 1.
C32_FlagNotLost ==
  running[Pusher].pc = "idle" =>
    \A e \in events : (e.origin = "facebook" /\ Unpushed(last.cms, e)) => e.sync = 1

\* C33 -- A follow-up invocation that runs a batch runs it with the target
\* and the page limit of the invocation that scheduled it.
C33_SameParameters ==
  (last.op = "batch" /\ last.via = "followup" /\ last.ran) =>
    /\ last.target = last.link.by.target
    /\ last.limit = last.link.by.limit

\* C34 -- Every photo row belongs to an event row that exists, whatever
\* the interleaving of reconciliations, manual inserts and dedupe passes.
C34_PhotosOwned ==
  \A p \in photos : \E e \in events : e.id = p.event_id

\* a reconciliation whose event a dedupe pass deleted has put a blob and
\* had the photo row rejected (every download here succeeds)
C34_Witness ==
  /\ seqKeys > seqPhotos
  /\ \E w \in Workers :
       /\ running[w].pc = "url"
       /\ running[w].i > 1
       /\ ~\E e \in events : e.id = running[w].eventId

\* the posts whose event write the invocation recorded in l carried out:
\* those it counted, and those whose reconciliation threw after the write
WrittenPosts(l) == l.seen \cup (l.failed \cap l.faults.late)

\* C35 -- In every summary, inserted is the number of event rows the
\* invocation added and updated the number of event rows it overwrote.
C35_CountsWhatWasWritten ==
  [][ (last'.op = "batch" /\ last'.ran /\ last'.stop # "error") =>
        /\ last'.inserted = Cardinality(EventIds(events') \ EventIds(events))
        /\ last'.updated =
             Cardinality({ e \in events : e.origin = "facebook"
                                           /\ e.external_id \in WrittenPosts(last') })
    ]_vars

\* C36 -- In every batch summary processed is the sum of inserted and
\* updated, and neither exceeds the number of posts counted.
C36_InsertedOrUpdated ==
  (last.op = "batch" /\ last.ran /\ last.stop # "error") =>
    /\ last.processed = last.inserted + last.updated
    /\ last.processed = Cardinality(last.seen)
    /\ last.inserted >= 0 /\ last.updated >= 0

\* a summary that counts an insert and an update while another post's
\* reconciliation threw
C36_Witness ==
  /\ last.op = "batch" /\ last.ran /\ last.stop # "error"
  /\ last.inserted >= 1
  /\ last.updated >= 1
  /\ last.failed # {}

\* the fields a reconciliation must leave alone
Kept(e) ==
  [id |-> e.id, external_id |-> e.external_id, external_source |-> e.external_source,
   origin |-> e.origin, active |-> e.active, approved |-> e.approved,
   first_seen |-> e.first_seen]

C38_DedupeIdempotent ==
  [][ (last.op = "dedupe" /\ last'.op = "dedupe") =>
        /\ events' = events /\ photos' = photos /\ bucket' = bucket
        /\ last'.steps = <<>>
        /\ last'.eventsRemoved = 0 /\ last'.photosRemoved = 0
    ]_vars

\* a pass right after a pass that had removed rows and left a blob behind
C38_Witness ==
  /\ last.op = "dedupe"
  /\ last.prior >= 1
  /\ last.eventsRemoved = 0 /\ last.photosRemoved = 0
  /\ \E k \in bucket : ~\E p \in photos : p.storage_key = k

\* C39 -- Every event row has origin 'facebook' or 'webflow'.  A manual
\* insert without event_name_line_1 (absent or empty) answers 400 and
\* writes nothing; one that writes a row binds a non-empty name.  A
\* reconciliation binds a non-empty event_name_line_1, and 'Memory' when
\* the post yields no text.
C39_OriginAndName ==
  [][ /\ \A e \in events' : e.origin \in {"facebook", "webflow"}
      /\ last'.op = "create" =>
           IF last'.status = 200
             THEN /\ last'.name.some /\ Len(last'.name.s) >= 1
                  /\ EventIds(events') = EventIds(events) \cup {last'.id}
             ELSE /\ last'.status = 400
                  /\ ~(last'.name.some /\ Len(last'.name.s) >= 1)
                  /\ UNCHANGED <<events, photos, bucket>>
      /\ last'.op = "named" =>
           /\ Len(last'.line1) >= 1
           /\ last'.bare => last'.line1 = Memory
    ]_vars

\* a post of white space was reconciled under the headline 'Memory' next
\* to a row a manual insert had created
C39_Witness ==
  /\ last.op = "named"
  /\ last.bare
  /\ last.line1 = Memory
  /\ \E e \in events : e.origin = "webflow"

\* C40 -- Multi-page fetch: the cursor handed back lies directly after
\* the last post handed back, so that no post of the feed sits between
\* the posts returned and the posts a resumed call starts from.
C40_CursorAfterLastPost ==
  (last.op = "paged" /\ last.nextCursor # 0) =>
     last.nextCursor <= last.opts.cursor + Len(last.posts)

====
